---- MODULE Spec2Model ----
(***************************************************************************)
(* A model of erd-rs: the nom grammar of src/parser.rs, the option groups  *)
(* of src/ast.rs, the assembler loop of parse_erd and the edge renderer of *)
(* src/render.rs.                                                          *)
(*                                                                         *)
(* Text is a sequence of one-character strings.  A parser is an operator   *)
(* of the text s and the 1-based position i of the next character; it      *)
(* yields [ok |-> TRUE, pos, val] or [ok |-> FALSE, kind].  Every failure  *)
(* of the grammar is a recoverable nom::Err::Error (the source never uses  *)
(* cut), so alt and many0 backtrack over it.                               *)
(***************************************************************************)
EXTENDS Integers, Sequences, FiniteSets, TLC

VARIABLES
    doc,                     \* what the writer of the document meant, line by line
    input,                   \* the text handed to the function under check
    pc,                      \* position in parse_erd: start, loop, done
    stmts,                   \* `a`, the statements parse returned
    idx,                     \* index in stmts of the next statement of the for loop
    entities,
    relationships,
    title_directive,
    header_directive,
    entity_directive,
    relationship_directive,
    result                   \* what the function under check returned

vars == <<doc, input, pc, stmts, idx, entities, relationships, title_directive,
          header_directive, entity_directive, relationship_directive, result>>

----------------------------------------------------------------------------
(* Bounds of the checked inputs.                                           *)
MaxStmts == 3
MaxPrefix == 6
MaxBody == 3
MaxBlank == 4
MaxAttach == 5

----------------------------------------------------------------------------
(* Characters.                                                             *)
Lower == {"a","b","c","d","e","f","g","h","i","j","k","l","m",
          "n","o","p","q","r","s","t","u","v","w","x","y","z"}
Upper == {"A","B","C","D","E","F","G","H","I","J","K","L","M",
          "N","O","P","Q","R","S","T","U","V","W","X","Y","Z"}
Digit == {"0","1","2","3","4","5","6","7","8","9"}
Alnum == Lower \cup Upper \cup Digit
SpaceCh == {" ", "\t"}
MultiSpaceCh == {" ", "\t", "\r", "\n"}
ControlCh == {"\t", "\r", "\n"}
\* the backtick character U+0060, which a TLA+ string literal cannot hold
Backtick == "BACKTICK"
QuoteCh == {"\"", "'", Backtick}
EOF == ""

At(s, i) == IF i >= 1 /\ i <= Len(s) THEN s[i] ELSE EOF

Ok(p, v) == [ok |-> TRUE, pos |-> p, val |-> v]
Fail(k) == [ok |-> FALSE, kind |-> k]

\* a panic!: it is no Err, so no alt, opt or many0 recovers from it
Panic == [ok |-> FALSE, kind |-> "Panic"]

\* Option<T>
None == <<>>
Some(v) == <<v>>

\* the position after the longest run of characters of C that starts at i
RECURSIVE SkipWhile(_, _, _)
SkipWhile(s, i, C) ==
    IF i <= Len(s) /\ s[i] \in C THEN SkipWhile(s, i + 1, C) ELSE i

\* the position of the first character of Stop at or after i, or Len(s) + 1
RECURSIVE SkipUntil(_, _, _)
SkipUntil(s, i, Stop) ==
    IF i <= Len(s) /\ s[i] \notin Stop THEN SkipUntil(s, i + 1, Stop) ELSE i

Slice(s, i, j) == SubSeq(s, i, j - 1)

space0(s, i) == SkipWhile(s, i, SpaceCh)
multispace0(s, i) == SkipWhile(s, i, MultiSpaceCh)

(***************************************************************************)
(* A combinator that binds an intermediate result is written as a chain of *)
(* operators, each taking the results bound so far as parameters: f, f_x,  *)
(* f_y for `let x = ..; let y = ..;` in fn f.                              *)
(***************************************************************************)

\* nom's not_line_ending: up to the first \r or \n; a \r that is not followed
\* by \n is an error (ErrorKind::Tag)
not_line_ending_j(s, j) ==
    IF At(s, j) = "\r" /\ At(s, j + 1) # "\n" THEN Fail("Nom") ELSE Ok(j, <<>>)

not_line_ending(s, i) == not_line_ending_j(s, SkipUntil(s, i, {"\r", "\n"}))

\* nom's line_ending: \n or \r\n
line_ending(s, i) ==
    IF At(s, i) = "\n" THEN Ok(i + 1, <<>>)
    ELSE IF At(s, i) = "\r" /\ At(s, i + 1) = "\n" THEN Ok(i + 2, <<>>)
    ELSE Fail("Nom")

\* alt((line_ending, eof)) at position p, le being line_ending there
comment_eol(s, p, le) ==
    IF le.ok THEN le ELSE IF p > Len(s) THEN Ok(p, <<>>) ELSE Fail("Nom")

comment_body(s, body) ==
    IF ~body.ok THEN body ELSE comment_eol(s, body.pos, line_ending(s, body.pos))

\* delimited(char('#'), not_line_ending, alt((line_ending, eof)))
comment(s, i) ==
    IF At(s, i) # "#" THEN Fail("Nom") ELSE comment_body(s, not_line_ending(s, i + 1))

\* many0(alt((multispace1, comment))): never fails, yields the position reached
RECURSIVE blank_or_comment(_, _)
blank_or_comment_c(s, i, c) == IF c.ok THEN blank_or_comment(s, c.pos) ELSE i

blank_or_comment(s, i) ==
    IF At(s, i) \in MultiSpaceCh THEN blank_or_comment(s, multispace0(s, i))
    ELSE blank_or_comment_c(s, i, comment(s, i))

\* take the run of [ \t\r\n,]
multispace_comma0(s, i) == SkipWhile(s, i, MultiSpaceCh \cup {","})

\* delimited(multispace0, opt(comment), multispace0)
multispace0_comment_c(s, j, c) == multispace0(s, IF c.ok THEN c.pos ELSE j)
multispace0_comment_j(s, j) == multispace0_comment_c(s, j, comment(s, j))
multispace0_comment(s, i) == multispace0_comment_j(s, multispace0(s, i))

\* delimited(space0, alt((line_ending, comment)), multispace0); no caller
eol_comment_c(s, c) == IF c.ok THEN Ok(multispace0(s, c.pos), <<>>) ELSE Fail("Nom")
eol_comment_le(s, j, le) ==
    IF le.ok THEN Ok(multispace0(s, le.pos), <<>>) ELSE eol_comment_c(s, comment(s, j))
eol_comment_j(s, j) == eol_comment_le(s, j, line_ending(s, j))
eol_comment(s, i) == eol_comment_j(s, space0(s, i))

----------------------------------------------------------------------------
(* Identifiers, quoted values and option blocks.                           *)

\* one of three delimited(char(q), take_while(!control && != q), char(q)),
\* q being the character at i and j the end of the take_while
ident_quoted_j(s, i, j) ==
    IF At(s, j) = At(s, i) THEN Ok(j + 1, Slice(s, i + 1, j)) ELSE Fail("Nom")

\* ident_quoted with a body that stops at any of the three quote characters
ident_quoted_any_quote(s, i) ==
    IF At(s, i) \notin QuoteCh THEN Fail("Nom")
    ELSE ident_quoted_j(s, i, SkipUntil(s, i + 1, ControlCh \cup QuoteCh))

ident_quoted(s, i) ==
    IF At(s, i) \notin QuoteCh THEN Fail("Nom")
    ELSE ident_quoted_j(s, i, SkipUntil(s, i + 1, ControlCh \cup {At(s, i)}))

\* take_while1 and alphanumeric1: the run from i to j, which must not be empty
take_while1(s, i, j) == IF j = i THEN Fail("Nom") ELSE Ok(j, Slice(s, i, j))

\* take_while1(alphanumeric || '_')
ident_no_space(s, i) == take_while1(s, i, SkipWhile(s, i, Alnum \cup {"_"}))

\* delimited(space0, alt((ident_quoted, ident_no_space)), space0)
ident_r(s, r) == IF r.ok THEN Ok(space0(s, r.pos), r.val) ELSE r
ident_q(s, j, q) == IF q.ok THEN ident_r(s, q) ELSE ident_r(s, ident_no_space(s, j))
ident_j(s, j) == ident_q(s, j, ident_quoted(s, j))
ident(s, i) == ident_j(s, space0(s, i))

\* delimited(char('"'), is_not("\""), char('"')); is_not needs one character
quoted_j(s, i, j) ==
    IF j = i + 1 \/ At(s, j) # "\"" THEN Fail("Nom") ELSE Ok(j + 1, Slice(s, i + 1, j))

quoted(s, i) ==
    IF At(s, i) # "\"" THEN Fail("Nom") ELSE quoted_j(s, i, SkipUntil(s, i + 1, {"\""}))

\* a key parser that also takes hyphens
alphanumeric1_hyphen(s, i) == take_while1(s, i, SkipWhile(s, i, Alnum \cup {"-"}))

alphanumeric1(s, i) == take_while1(s, i, SkipWhile(s, i, Alnum))

\* separated_pair(alphanumeric1, delimited(space0, char(':'), space0), quoted)
option_v(k, v) == IF v.ok THEN Ok(v.pos, <<k.val, v.val>>) ELSE v
option_c(s, k, c) ==
    IF At(s, c) # ":" THEN Fail("Nom") ELSE option_v(k, quoted(s, space0(s, c + 1)))
option_k(s, k) == IF ~k.ok THEN k ELSE option_c(s, k, space0(s, k.pos))
option(s, i) == option_k(s, alphanumeric1(s, i))

\* delimited(multispace0_comment, char(','), multispace0_comment)
option_sep_j(s, j) ==
    IF At(s, j) = "," THEN Ok(multispace0_comment(s, j + 1), <<>>) ELSE Fail("Nom")
option_sep(s, i) == option_sep_j(s, multispace0_comment(s, i))

\* separated_list0(option_sep, option): a separator that is not followed by
\* an option is given back
RECURSIVE separated_rest(_, _, _)
separated_next(s, i, acc, o) ==
    IF ~o.ok THEN Ok(i, acc) ELSE separated_rest(s, o.pos, Append(acc, o.val))
separated_sep(s, i, acc, sp) ==
    IF ~sp.ok THEN Ok(i, acc) ELSE separated_next(s, i, acc, option(s, sp.pos))
separated_rest(s, i, acc) == separated_sep(s, i, acc, option_sep(s, i))
separated_first(s, i, o) ==
    IF ~o.ok THEN Ok(i, <<>>) ELSE separated_rest(s, o.pos, <<o.val>>)
separated_list0(s, i) == separated_first(s, i, option(s, i))

\* preceded(char('{'), multispace0), the pairs l, then
\* terminated(delimited(multispace_comma0, multispace0_comment, multispace_comma0), char('}'))
options_e(s, l, e) == IF At(s, e) = "}" THEN Ok(e + 1, l.val) ELSE Fail("Nom")
options_l(s, l) ==
    options_e(s, l, multispace_comma0(s, multispace0_comment(s, multispace_comma0(s, l.pos))))
options(s, i) ==
    IF At(s, i) # "{" THEN Fail("Nom")
    ELSE options_l(s, separated_list0(s, multispace0(s, i + 1)))

----------------------------------------------------------------------------
(* The option groups of ast.rs.  A HashMap<String, String> is a function   *)
(* from keys to values.                                                    *)

OPT_COLOR == <<"c","o","l","o","r">>
OPT_LABEL == <<"l","a","b","e","l">>
OPT_SIZE == <<"s","i","z","e">>
OPT_FONT == <<"f","o","n","t">>
OPT_BACKGROUND_COLOR == <<"b","g","c","o","l","o","r">>
OPT_BORDER_COLOR == <<"b","o","r","d","e","r","-","c","o","l","o","r">>
OPT_BORDER == <<"b","o","r","d","e","r">>

Helvetica == <<"H","e","l","v","e","t","i","c","a">>
LEFT == <<"L","E","F","T">>

EmptyMap == [k \in {} |-> <<>>]

\* extend with the old value kept
extend_keep_old(m, o) ==
    [k \in DOMAIN m \cup DOMAIN o |-> IF k \in DOMAIN m THEN m[k] ELSE o[k]]

\* HashMap::extend, and HashMap::insert of one pair: a key already there is overwritten
extend(m, o) ==
    [k \in DOMAIN m \cup DOMAIN o |-> IF k \in DOMAIN o THEN o[k] ELSE m[k]]

\* Iterator::collect of a Vec<(k, v)> into a HashMap: pairs inserted left to right
RECURSIVE collect_from(_, _, _)
collect_from(pairs, n, m) ==
    IF n > Len(pairs) THEN m
    ELSE collect_from(pairs, n + 1, extend(m, [k \in {pairs[n][1]} |-> pairs[n][2]]))

collect(pairs) == collect_from(pairs, 1, EmptyMap)

DigitVal(c) == CHOOSE n \in 0..9 : <<"0","1","2","3","4","5","6","7","8","9">>[n + 1] = c

U8_MAX == 255

\* the value of a digit string, or U8_MAX + 1 once it has overflowed
RECURSIVE DecValue(_, _, _)
DecValue(v, n, acc) ==
    IF n > Len(v) THEN acc
    ELSE IF acc * 10 + DigitVal(v[n]) > U8_MAX THEN U8_MAX + 1
    ELSE DecValue(v, n + 1, acc * 10 + DigitVal(v[n]))

\* str::parse::<u8>: an optional '+', then one or more digits, at most 255
parse_u8(v) ==
    LET ds == IF Len(v) > 0 /\ v[1] = "+" THEN Tail(v) ELSE v
    IN  IF Len(ds) = 0 \/ \E n \in 1..Len(ds) : ds[n] \notin Digit THEN None
        ELSE IF DecValue(ds, 1, 0) > U8_MAX THEN None
        ELSE Some(DecValue(ds, 1, 0))

ErrMsg(text, arg) == [text |-> text, arg |-> arg]

\* the Err a merge_hashmap returns when its loop meets key k
merge_error(m, k, known, group) ==
    IF k \notin known THEN ErrMsg(group, m[k])
    ELSE IF k = OPT_SIZE THEN ErrMsg("could not parse size as integer: ", m[k])
    ELSE ErrMsg("could not parse border as integer: ", m[k])

\* the errors the loop of a merge_hashmap can return: the loop returns at the
\* first bad entry it meets, and a HashMap is iterated in an unspecified order
merge_errors(m, known, numeric, group) ==
    { merge_error(m, k, known, group) :
        k \in { x \in DOMAIN m : x \notin known \/ (x \in numeric /\ parse_u8(m[x]) = None) } }

outcomes(errs, applied) ==
    IF errs = {} THEN {[ok |-> TRUE, val |-> applied]}
    ELSE {[ok |-> FALSE, err |-> e] : e \in errs}

opt_str(m, k, old) == IF k \in DOMAIN m THEN Some(m[k]) ELSE old
opt_u8(m, k, old) == IF k \in DOMAIN m THEN parse_u8(m[k]) ELSE old
req_str(m, k, old) == IF k \in DOMAIN m THEN m[k] ELSE old
req_u8(m, k, old) == IF k \in DOMAIN m THEN parse_u8(m[k])[1] ELSE old

TitleKeys == {OPT_LABEL, OPT_COLOR, OPT_FONT, OPT_SIZE}
HeaderKeys == {OPT_SIZE, OPT_LABEL, OPT_COLOR, OPT_BACKGROUND_COLOR, OPT_FONT,
               OPT_BORDER_COLOR, OPT_BORDER}
EntityKeys == {OPT_BACKGROUND_COLOR, OPT_LABEL, OPT_COLOR, OPT_SIZE, OPT_FONT,
               OPT_BORDER_COLOR, OPT_BORDER}
AttributeKeys == {OPT_LABEL, OPT_COLOR, OPT_BACKGROUND_COLOR, OPT_FONT,
                  OPT_BORDER_COLOR, OPT_BORDER}
RelationshipKeys == {OPT_LABEL, OPT_COLOR, OPT_SIZE, OPT_FONT}

TitleOptions_default == [size |-> 30, label |-> None, color |-> None, font |-> None]

TitleOptions_merge_hashmap(self, m) ==
    outcomes(merge_errors(m, TitleKeys, {OPT_SIZE}, "invalid header option: "),
             [self EXCEPT !.label = opt_str(m, OPT_LABEL, @),
                          !.color = opt_str(m, OPT_COLOR, @),
                          !.font = opt_str(m, OPT_FONT, @),
                          !.size = req_u8(m, OPT_SIZE, @)])

HeaderOptions_default ==
    [size |-> 16, font |-> Helvetica, border |-> 0, cell_border |-> 1,
     cell_padding |-> 4, cell_spacing |-> 0, background_color |-> None,
     label |-> None, color |-> None, border_color |-> None]

HeaderOptions_merge_hashmap(self, m) ==
    outcomes(merge_errors(m, HeaderKeys, {OPT_SIZE, OPT_BORDER}, "invalid header option: "),
             [self EXCEPT !.size = req_u8(m, OPT_SIZE, @),
                          !.label = opt_str(m, OPT_LABEL, @),
                          !.color = opt_str(m, OPT_COLOR, @),
                          !.background_color = opt_str(m, OPT_BACKGROUND_COLOR, @),
                          !.font = req_str(m, OPT_FONT, @),
                          !.border_color = opt_str(m, OPT_BORDER_COLOR, @),
                          !.border = req_u8(m, OPT_BORDER, @)])

HeaderOptions_from_hashmap(m) == HeaderOptions_merge_hashmap(HeaderOptions_default, m)

EntityOptions_default ==
    [border |-> 0, cell_border |-> 1, cell_spacing |-> 0, cell_padding |-> 4,
     font |-> Helvetica, background_color |-> None, label |-> None,
     color |-> None, size |-> None, border_color |-> None]

EntityOptions_merge_hashmap(self, m) ==
    outcomes(merge_errors(m, EntityKeys, {OPT_SIZE, OPT_BORDER}, "invalid entity option: "),
             [self EXCEPT !.background_color = opt_str(m, OPT_BACKGROUND_COLOR, @),
                          !.label = opt_str(m, OPT_LABEL, @),
                          !.color = opt_str(m, OPT_COLOR, @),
                          !.size = opt_u8(m, OPT_SIZE, @),
                          !.font = req_str(m, OPT_FONT, @),
                          !.border_color = opt_str(m, OPT_BORDER_COLOR, @),
                          !.border = req_u8(m, OPT_BORDER, @)])

EntityOptions_from_hashmap(m) == EntityOptions_merge_hashmap(EntityOptions_default, m)

AttributeOptions_default ==
    [text_alignment |-> LEFT, label |-> None, color |-> None,
     background_color |-> None, font |-> None, border |-> None, border_color |-> None]

AttributeOptions_merge_hashmap(self, m) ==
    outcomes(merge_errors(m, AttributeKeys, {OPT_BORDER}, "invalid attribute option: "),
             [self EXCEPT !.label = opt_str(m, OPT_LABEL, @),
                          !.color = opt_str(m, OPT_COLOR, @),
                          !.background_color = opt_str(m, OPT_BACKGROUND_COLOR, @),
                          !.font = opt_str(m, OPT_FONT, @),
                          !.border_color = opt_str(m, OPT_BORDER_COLOR, @),
                          !.border = opt_u8(m, OPT_BORDER, @)])

AttributeOptions_from_hashmap(m) ==
    AttributeOptions_merge_hashmap(AttributeOptions_default, m)

RelationshipOptions_default ==
    [label |-> None, color |-> None, size |-> None, font |-> None]

RelationshipOptions_merge_hashmap(self, m) ==
    outcomes(merge_errors(m, RelationshipKeys, {OPT_SIZE}, "invalid relationship option: "),
             [self EXCEPT !.label = opt_str(m, OPT_LABEL, @),
                          !.color = opt_str(m, OPT_COLOR, @),
                          !.size = opt_u8(m, OPT_SIZE, @),
                          !.font = opt_str(m, OPT_FONT, @)])

RelationshipOptions_from_hashmap(m) ==
    RelationshipOptions_merge_hashmap(RelationshipOptions_default, m)

\* a from_hashmap whose Result the grammar only tests with `match`: Ok(o) or Err
IsOk(outs) == \A o \in outs : o.ok
TheOk(outs) == (CHOOSE o \in outs : o.ok).val

----------------------------------------------------------------------------
(* The statements of the grammar.                                          *)

\* delimited(multispace0, opt(options), space0), the pairs collected into a
\* HashMap; never fails
trailing_options_o(s, j, o) ==
    IF o.ok THEN Ok(space0(s, o.pos), collect(o.val)) ELSE Ok(space0(s, j), EmptyMap)
trailing_options_j(s, j) == trailing_options_o(s, j, options(s, j))
trailing_options(s, i) == trailing_options_j(s, multispace0(s, i))

entity_build(name, p, eo, ho) ==
    IF ~IsOk(eo) \/ ~IsOk(ho) THEN Fail("InvalidOption")
    ELSE Ok(p, [t |-> "Entity", name |-> name, attribs |-> <<>>,
                options |-> TheOk(eo), header_options |-> TheOk(ho)])
\* entity with the header options left at their defaults
entity_opts_header_default(name, opts) ==
    entity_build(name, opts.pos, EntityOptions_from_hashmap(opts.val),
                 HeaderOptions_from_hashmap(EmptyMap))
entity_opts(name, opts) ==
    entity_build(name, opts.pos, EntityOptions_from_hashmap(opts.val),
                 HeaderOptions_from_hashmap(opts.val))
entity_name(s, name) ==
    IF ~name.ok THEN name
    ELSE IF At(s, name.pos) # "]" THEN Fail("Nom")
    ELSE entity_opts(name.val, trailing_options(s, name.pos + 1))
entity(s, i) ==
    IF At(s, i) # "[" THEN Fail("Nom") ELSE entity_name(s, ident(s, i + 1))

\* one_of with a character the match has no arm for
KeyTypeCh_wide == {"*", "+", " ", "\t", "?"}

\* the characters of one_of("*+ \t")
KeyTypeCh == {"*", "+", " ", "\t"}

\* the patterns of the match on key_type; its last arm panics
KeyTypeArms == {"*", "+", " ", "\t"}

\* the flags with each marker toggling its flag
attribute_flags_toggle(key_types, field) ==
    [t |-> "Attribute", field |-> field,
     pk |-> (Cardinality({n \in 1..Len(key_types) : key_types[n] = "*"}) % 2 = 1),
     fk |-> (Cardinality({n \in 1..Len(key_types) : key_types[n] = "+"}) % 2 = 1),
     options |-> AttributeOptions_default]

\* with_field and the loop over key_types
attribute_flags(key_types, field) ==
    [t |-> "Attribute", field |-> field,
     pk |-> (\E n \in 1..Len(key_types) : key_types[n] = "*"),
     fk |-> (\E n \in 1..Len(key_types) : key_types[n] = "+"),
     options |-> AttributeOptions_default]

attribute_build(attr, p, ao) ==
    IF ~IsOk(ao) THEN Fail("InvalidOption")
    ELSE Ok(p, [attr EXCEPT !.options = TheOk(ao)])
attribute_opts(attr, opts) ==
    attribute_build(attr, opts.pos, AttributeOptions_from_hashmap(opts.val))
attribute_field(s, key_types, field) ==
    IF ~field.ok THEN field
    ELSE IF \E n \in 1..Len(key_types) : key_types[n] \notin KeyTypeArms THEN Panic
    ELSE attribute_opts(attribute_flags(key_types, field.val),
                        trailing_options(s, field.pos))
attribute_key_types(s, i, j) == attribute_field(s, Slice(s, i, j), ident(s, j))
\* many0(one_of("*+ \t")), ident, the flags, trailing_options
attribute(s, i) == attribute_key_types(s, i, SkipWhile(s, i, KeyTypeCh))

CardCh == {"?", "1", "*", "+"}

\* the match of Renderer::relationship on a Cardinality
Cardinality_glyph(c) ==
    CASE c = "ZeroOne" -> "{0,1}"
      [] c = "One" -> "1"
      [] c = "ZeroPlus" -> "0..N"
      [] c = "OnePlus" -> "1..N"

\* one_of("?1*+") and the match on it
cardinality(s, i) ==
    IF At(s, i) \notin CardCh THEN Fail("Nom")
    ELSE CASE At(s, i) = "?" -> Ok(i + 1, "ZeroOne")
           [] At(s, i) = "1" -> Ok(i + 1, "One")
           [] At(s, i) = "*" -> Ok(i + 1, "ZeroPlus")
           [] At(s, i) = "+" -> Ok(i + 1, "OnePlus")
           [] OTHER -> Panic

relation_build(entity1, card1, card2, entity2, p, ro) ==
    IF ~IsOk(ro) THEN Fail("InvalidOption")
    ELSE Ok(p, [t |-> "Relation", entity1 |-> entity1, entity2 |-> entity2,
                card1 |-> card1, card2 |-> card2, options |-> TheOk(ro)])
relation_opts(entity1, card1, card2, entity2, opts) ==
    relation_build(entity1, card1, card2, entity2, opts.pos,
                   RelationshipOptions_from_hashmap(opts.val))
relation_entity2(s, entity1, card1, card2, entity2) ==
    IF ~entity2.ok THEN entity2
    ELSE relation_opts(entity1, card1, card2, entity2.val,
                       trailing_options(s, entity2.pos))
relation_card2(s, entity1, card1, card2) ==
    IF ~card2.ok THEN card2
    ELSE relation_entity2(s, entity1, card1, card2.val, ident(s, card2.pos))
\* separated_pair(cardinality, tag("--"), cardinality)
relation_card1(s, entity1, card1) ==
    IF ~card1.ok THEN card1
    ELSE IF At(s, card1.pos) # "-" \/ At(s, card1.pos + 1) # "-" THEN Fail("Nom")
    ELSE relation_card2(s, entity1, card1.val, cardinality(s, card1.pos + 2))
relation_entity1(s, entity1) ==
    IF ~entity1.ok THEN entity1
    ELSE relation_card1(s, entity1.val, cardinality(s, entity1.pos))
relation(s, i) == relation_entity1(s, ident(s, i))

\* nom's tag
tag(s, i, w) == i + Len(w) - 1 <= Len(s) /\ SubSeq(s, i, i + Len(w) - 1) = w

KwTitle == <<"t","i","t","l","e">>
KwHeader == <<"h","e","a","d","e","r">>
KwEntity == <<"e","n","t","i","t","y">>
KwRelationship == <<"r","e","l","a","t","i","o","n","s","h","i","p">>

global_option_opts(option_type, opts) ==
    Ok(opts.pos, [t |-> "GlobalOption", option_type |-> option_type,
                  options |-> opts.val])
\* the match on name; its last arm panics
global_option_name(s, i, name) ==
    CASE name = KwTitle -> global_option_opts("Title", trailing_options(s, i))
      [] name = KwHeader -> global_option_opts("Header", trailing_options(s, i))
      [] name = KwEntity -> global_option_opts("Entity", trailing_options(s, i))
      [] name = KwRelationship ->
            global_option_opts("Relationship", trailing_options(s, i))
      [] OTHER -> Panic
\* the names alt((tag("title"), tag("header"), tag("entity"), tag("relationship")))
\* tries, in this order
GlobalTags == <<KwTitle, KwHeader, KwEntity, KwRelationship>>

RECURSIVE global_option_alt(_, _, _)
global_option_alt(s, i, n) ==
    IF n > Len(GlobalTags) THEN Fail("Nom")
    ELSE IF tag(s, i, GlobalTags[n])
         THEN global_option_name(s, i + Len(GlobalTags[n]), GlobalTags[n])
         ELSE global_option_alt(s, i, n + 1)

global_option(s, i) == global_option_alt(s, i, 1)

\* many0(delimited(blank_or_comment, global_option, blank_or_comment)); an
\* iteration that fails gives back the blanks it skipped
RECURSIVE many0_global(_, _, _)
many0_global_g(s, i, acc, g) ==
    IF g = Panic THEN Panic
    ELSE IF ~g.ok THEN Ok(i, acc)
    ELSE many0_global(s, blank_or_comment(s, g.pos), Append(acc, g.val))
many0_global(s, i, acc) ==
    many0_global_g(s, i, acc, global_option(s, blank_or_comment(s, i)))

\* alt((entity, relation, attribute))
statement_r(s, i, r) == IF r.ok \/ r = Panic THEN r ELSE attribute(s, i)
\* alt((entity, attribute, relation))
statement_e_attribute_first(s, i, e) ==
    IF e.ok THEN e
    ELSE IF attribute(s, i).ok THEN attribute(s, i)
    ELSE relation(s, i)
statement_e(s, i, e) == IF e.ok THEN e ELSE statement_r(s, i, relation(s, i))
statement(s, i) == statement_e(s, i, entity(s, i))

\* many0(delimited(blank_or_comment, alt(...), blank_or_comment))
RECURSIVE many0_era(_, _, _)
many0_era_st(s, i, acc, st) ==
    IF st = Panic THEN Panic
    ELSE IF ~st.ok THEN Ok(i, acc)
    ELSE many0_era(s, blank_or_comment(s, st.pos), Append(acc, st.val))
many0_era(s, i, acc) == many0_era_st(s, i, acc, statement(s, blank_or_comment(s, i)))

\* the grammar with the directives among the alternatives of every statement
statement_any_g(s, i, g) == IF g.ok THEN g ELSE statement(s, i)
statement_any(s, i) == statement_any_g(s, i, global_option(s, i))
RECURSIVE many0_any(_, _, _)
many0_any_st(s, i, acc, st) ==
    IF ~st.ok THEN Ok(i, acc)
    ELSE many0_any(s, blank_or_comment(s, st.pos), Append(acc, st.val))
many0_any(s, i, acc) ==
    many0_any_st(s, i, acc, statement_any(s, blank_or_comment(s, i)))

\* all_consuming: its error is Nom(rest, Eof), and parse_erd returns the
\* to_string of it
parse_end(s, a, e) ==
    IF e <= Len(s)
    THEN [ok |-> FALSE,
          err |-> ErrMsg("Parsing Error: Nom(_, Eof)", Slice(s, e, Len(s) + 1))]
    ELSE [ok |-> TRUE, val |-> a]
\* parse with the directives appended after the other statements
parse_era_directives_last(s, global_opts, era) ==
    IF era = Panic THEN Panic
    ELSE parse_end(s, era.val \o global_opts, blank_or_comment(s, era.pos))
parse_era(s, global_opts, era) ==
    IF era = Panic THEN Panic
    ELSE parse_end(s, global_opts \o era.val, blank_or_comment(s, era.pos))
parse_global_opts(s, global_opts) ==
    IF global_opts = Panic THEN Panic
    ELSE parse_era(s, global_opts.val,
              many0_era(s, blank_or_comment(s, global_opts.pos), <<>>))
\* parse with no leading run: every statement is any of the four forms
parse_anywhere(s) ==
    parse_era(s, <<>>, many0_any(s, blank_or_comment(s, 1), <<>>))

\* the leading directives, then all_consuming of the other statements
parse(s) == parse_global_opts(s, many0_global(s, 1, <<>>))

----------------------------------------------------------------------------
(* parse_erd: the call of parse, then one step per iteration of the loop   *)
(* over the statements, then the merge of the title directive.             *)

NoResult == [kind |-> "none"]
ResOk(erd) == [kind |-> "Ok", erd |-> erd]
ResErr(e) == [kind |-> "Err", err |-> e]
\* the unwinding of a panic!: parse_erd returns nothing
Panicked == [kind |-> "Panic"]

AttributeWithoutEntity ==
    ErrMsg("found attribute without a preceding entity to attach it to", <<>>)

\* add_attribute on entities.first_mut()
add_attribute_first(es, a) ==
    [es EXCEPT ![1] = [@ EXCEPT !.attribs = Append(@, a)]]

\* Entity::add_attribute on entities.last_mut()
add_attribute(es, a) ==
    [es EXCEPT ![Len(es)] = [@ EXCEPT !.attribs = Append(@, a)]]

Parsed(a) ==
    IF a.ok
    THEN /\ stmts' = a.val
         /\ pc' = "loop"
         /\ result' = result
    ELSE /\ stmts' = stmts
         /\ pc' = "done"
         /\ result' = IF a = Panic THEN Panicked ELSE ResErr(a.err)

ParseStep ==
    /\ pc = "start"
    /\ Parsed(parse(input))
    /\ UNCHANGED <<doc, input, idx, entities, relationships, title_directive,
                   header_directive, entity_directive, relationship_directive>>

InLoop(t) == pc = "loop" /\ idx <= Len(stmts) /\ stmts[idx].t = t

Abort(e) ==
    /\ result' = ResErr(e)
    /\ pc' = "done"
    /\ UNCHANGED <<idx, entities, relationships>>

\* the Entity arm with the entity directive merged into both option sets
StepEntity_one_directive ==
    /\ InLoop("Entity")
    /\ \E eo \in EntityOptions_merge_hashmap(stmts[idx].options, entity_directive) :
         IF ~eo.ok THEN Abort(eo.err)
         ELSE \E ho \in HeaderOptions_merge_hashmap(stmts[idx].header_options,
                                                    entity_directive) :
                IF ~ho.ok THEN Abort(ho.err)
                ELSE /\ entities' = Append(entities,
                                           [stmts[idx] EXCEPT !.options = eo.val,
                                                              !.header_options = ho.val])
                     /\ idx' = idx + 1
                     /\ UNCHANGED <<pc, result, relationships>>
    /\ UNCHANGED <<doc, input, stmts, title_directive, header_directive,
                   entity_directive, relationship_directive>>

StepEntity ==
    /\ InLoop("Entity")
    /\ \E eo \in EntityOptions_merge_hashmap(stmts[idx].options, entity_directive) :
         IF ~eo.ok THEN Abort(eo.err)
         ELSE \E ho \in HeaderOptions_merge_hashmap(stmts[idx].header_options,
                                                    header_directive) :
                IF ~ho.ok THEN Abort(ho.err)
                ELSE /\ entities' = Append(entities,
                                           [stmts[idx] EXCEPT !.options = eo.val,
                                                              !.header_options = ho.val])
                     /\ idx' = idx + 1
                     /\ UNCHANGED <<pc, result, relationships>>
    /\ UNCHANGED <<doc, input, stmts, title_directive, header_directive,
                   entity_directive, relationship_directive>>

StepRelation ==
    /\ InLoop("Relation")
    /\ \E ro \in RelationshipOptions_merge_hashmap(stmts[idx].options,
                                                   relationship_directive) :
         IF ~ro.ok THEN Abort(ro.err)
         ELSE /\ relationships' = Append(relationships,
                                         [stmts[idx] EXCEPT !.options = ro.val])
              /\ idx' = idx + 1
              /\ UNCHANGED <<pc, result, entities>>
    /\ UNCHANGED <<doc, input, stmts, title_directive, header_directive,
                   entity_directive, relationship_directive>>

\* the Attribute arm with a dangling attribute skipped
StepAttribute_skip ==
    /\ InLoop("Attribute")
    /\ entities' = IF entities = <<>> THEN entities
                   ELSE add_attribute(entities, stmts[idx])
    /\ idx' = idx + 1
    /\ UNCHANGED <<pc, result, relationships>>
    /\ UNCHANGED <<doc, input, stmts, title_directive, header_directive,
                   entity_directive, relationship_directive>>

StepAttribute ==
    /\ InLoop("Attribute")
    /\ IF entities = <<>> THEN Abort(AttributeWithoutEntity)
       ELSE /\ entities' = add_attribute(entities, stmts[idx])
            /\ idx' = idx + 1
            /\ UNCHANGED <<pc, result, relationships>>
    /\ UNCHANGED <<doc, input, stmts, title_directive, header_directive,
                   entity_directive, relationship_directive>>

StepGlobalOption ==
    /\ InLoop("GlobalOption")
    /\ LET g == stmts[idx]
       IN  /\ title_directive' =
                IF g.option_type = "Title" THEN extend(title_directive, g.options)
                ELSE title_directive
           /\ header_directive' =
                IF g.option_type = "Header" THEN extend(header_directive, g.options)
                ELSE header_directive
           /\ entity_directive' =
                IF g.option_type = "Entity" THEN extend(entity_directive, g.options)
                ELSE entity_directive
           /\ relationship_directive' =
                IF g.option_type = "Relationship"
                THEN extend(relationship_directive, g.options)
                ELSE relationship_directive
    /\ idx' = idx + 1
    /\ UNCHANGED <<doc, input, pc, stmts, entities, relationships, result>>

Finish ==
    /\ pc = "loop"
    /\ idx > Len(stmts)
    /\ \E to \in TitleOptions_merge_hashmap(TitleOptions_default, title_directive) :
         result' = IF to.ok
                   THEN ResOk([entities |-> entities, relationships |-> relationships,
                               title_options |-> to.val])
                   ELSE ResErr(to.err)
    /\ pc' = "done"
    /\ UNCHANGED <<doc, input, stmts, idx, entities, relationships, title_directive,
                   header_directive, entity_directive, relationship_directive>>

Next ==
    \/ ParseStep
    \/ StepEntity
    \/ StepRelation
    \/ StepAttribute
    \/ StepGlobalOption
    \/ Finish

----------------------------------------------------------------------------
(* The documents parse_erd is checked on: up to MaxStmts lines, each       *)
(* written out from what its writer meant by it.                           *)

Ent(name, pairs) == [kind |-> "entity", name |-> name, opts |-> pairs]
Att(marks, field, pairs) ==
    [kind |-> "attribute", marks |-> marks, name |-> field, opts |-> pairs]
Rel(e1, c1, c2, e2, pairs) ==
    [kind |-> "relation", name |-> e1, c1 |-> c1, c2 |-> c2, name2 |-> e2, opts |-> pairs]
Dir(cat, pairs) == [kind |-> "directive", cat |-> cat, opts |-> pairs]

RECURSIVE WritePairs(_, _)
WritePairs(pairs, n) ==
    IF n > Len(pairs) THEN <<>>
    ELSE (IF n > 1 THEN <<",", " ">> ELSE <<>>)
         \o pairs[n][1] \o <<":", " ", "\"">> \o pairs[n][2] \o <<"\"">>
         \o WritePairs(pairs, n + 1)

WriteBlock(pairs) ==
    IF pairs = <<>> THEN <<>> ELSE <<" ", "{">> \o WritePairs(pairs, 1) \o <<"}">>

Keyword(cat) ==
    CASE cat = "Title" -> KwTitle
      [] cat = "Header" -> KwHeader
      [] cat = "Entity" -> KwEntity
      [] cat = "Relationship" -> KwRelationship

WriteLine(l) ==
    CASE l.kind = "entity" -> <<"[">> \o l.name \o <<"]">> \o WriteBlock(l.opts)
      [] l.kind = "attribute" -> l.marks \o l.name \o WriteBlock(l.opts)
      [] l.kind = "relation" ->
            l.name \o <<" ", l.c1, "-", "-", l.c2, " ">> \o l.name2 \o WriteBlock(l.opts)
      [] l.kind = "directive" -> Keyword(l.cat) \o WriteBlock(l.opts)

RECURSIVE WriteDoc(_, _)
WriteDoc(d, n) ==
    IF n > Len(d) THEN <<>> ELSE WriteLine(d[n]) \o <<"\n">> \o WriteDoc(d, n + 1)

red == <<"r","e","d">>
blue == <<"b","l","u","e">>
pink == <<"p","i","n","k">>
bogus == <<"b","o","g","u","s">>

Lines ==
    { Ent(<<"e">>, <<>>),
      Ent(<<"e">>, <<<<OPT_COLOR, blue>>>>),
      Ent(<<"f">>, <<<<bogus, <<"x">>>>>>),
      Dir("Entity", <<<<OPT_COLOR, red>>>>),
      Dir("Entity", <<<<OPT_LABEL, <<"L">>>>, <<OPT_COLOR, pink>>, <<OPT_LABEL, <<"M">>>>>>),
      Dir("Header", <<<<OPT_COLOR, red>>>>),
      Dir("Relationship", <<<<OPT_COLOR, red>>>>),
      Dir("Relationship", <<<<bogus, <<"x">>>>>>),
      Dir("Title", <<<<bogus, <<"x">>>>>>),
      Rel(<<"e">>, "1", "*", <<"f">>, <<<<OPT_COLOR, blue>>>>),
      Rel(<<"e">>, "?", "+", <<"f">>, <<>>),
      Att(<<"*">>, <<"i","d">>, <<>>),
      Att(<<>>, <<"n">>, <<<<bogus, <<"x">>>>>>) }

DocsOf(L, n) == UNION { [1..m -> L] : m \in 0..n }

InitOn(d, text) ==
    /\ doc = d
    /\ input = text
    /\ pc = "start"
    /\ stmts = <<>>
    /\ idx = 1
    /\ entities = <<>>
    /\ relationships = <<>>
    /\ title_directive = EmptyMap
    /\ header_directive = EmptyMap
    /\ entity_directive = EmptyMap
    /\ relationship_directive = EmptyMap
    /\ result = NoResult

Init == \E d \in DocsOf(Lines, MaxStmts) : InitOn(d, WriteDoc(d, 1))

Spec == Init /\ [][Next]_vars

----------------------------------------------------------------------------
(* Attachment of attributes: longer documents over fewer lines.            *)

AttachLines ==
    { Ent(<<"e">>, <<>>),
      Att(<<"*">>, <<"i","d">>, <<>>),
      Att(<<>>, <<"n">>, <<>>),
      Rel(<<"e">>, "1", "*", <<"e">>, <<>>),
      Dir("Header", <<<<OPT_COLOR, red>>>>) }

InitAttach == \E d \in DocsOf(AttachLines, MaxAttach) : InitOn(d, WriteDoc(d, 1))

SpecAttach == InitAttach /\ [][Next]_vars

----------------------------------------------------------------------------
(* Documents of blanks and comments.                                       *)

BlankCh == {" ", "\t", "\n", "\r", "#", "c"}

InitBlank == \E d \in DocsOf(BlankCh, MaxBlank) : InitOn(d, d)

NextBlank == ParseStep \/ Finish

SpecBlank == InitBlank /\ [][NextBlank]_vars

----------------------------------------------------------------------------
(* The parsers attribute, ident and relation on their own, as the tests of *)
(* parser.rs call them, and Renderer::relationship on the parsed relation. *)

Apply(r) ==
    /\ pc = "start"
    /\ pc' = "done"
    /\ result' = r
    /\ UNCHANGED <<doc, input, stmts, idx, entities, relationships, title_directive,
                   header_directive, entity_directive, relationship_directive>>

Parsed1(r) == [kind |-> "Parsed", r |-> r]

Prefixes == DocsOf(KeyTypeCh, MaxPrefix)

FieldTexts ==
    { [name |-> <<"f","o","o">>, text |-> <<"f","o","o">>],
      [name |-> <<"a"," ","b">>, text |-> <<"'","a"," ","b","'">>] }

InitAttribute ==
    \E m \in Prefixes, f \in FieldTexts :
        InitOn([marks |-> m, name |-> f.name], m \o f.text)

ApplyAttribute == Apply(Parsed1(attribute(input, 1)))

SpecAttribute == InitAttribute /\ [][ApplyAttribute]_vars

BodyCh == {"f", "_", "7", " ", "\"", "'", Backtick}
Bodies == DocsOf(BodyCh, MaxBody) \ {<<>>}
Pads == { <<<<>>, <<>>>>, <<<<" ">>, <<" ">>>>, <<<<"\t", " ">>, <<" ", "\t">>>> }

\* a body as its writer may wrap it: bare when it is one run of alphanumerics
\* and underscores, in a quote character when it holds no such character
Wraps(b) ==
    { q \in QuoteCh : \A n \in 1..Len(b) : b[n] # q }
    \cup (IF \A n \in 1..Len(b) : b[n] \in Alnum \cup {"_"} THEN {EOF} ELSE {})

WriteIdent(b, q) == IF q = EOF THEN b ELSE <<q>> \o b \o <<q>>

InitIdent ==
    \E b \in Bodies, pd \in Pads :
        \E q \in Wraps(b) :
            InitOn([body |-> b, quote |-> q], pd[1] \o WriteIdent(b, q) \o pd[2])

ApplyIdent == Apply(Parsed1(ident(input, 1)))

SpecIdent == InitIdent /\ [][ApplyIdent]_vars

\* relationship with head_card from card1 and tail_card from card2
relationship_swapped(r) ==
    <<"\"", r.entity1, "\" -- \"", r.entity2, "\" [ headlabel=\"",
      Cardinality_glyph(r.card1), "\", taillabel=\"", Cardinality_glyph(r.card2),
      "\" ];\n">>

\* Renderer::relationship: the pieces of its write!, head_card from card2 and
\* tail_card from card1
relationship(r) ==
    <<"\"", r.entity1, "\" -- \"", r.entity2, "\" [ headlabel=\"",
      Cardinality_glyph(r.card2), "\", taillabel=\"", Cardinality_glyph(r.card1),
      "\" ];\n">>

RelNames ==
    { [name |-> <<"E","1">>, text |-> <<"E","1">>],
      [name |-> <<"E","2">>, text |-> <<"E","2">>],
      [name |-> <<"E"," ","1">>, text |-> <<Backtick,"E"," ","1",Backtick>>] }

InitRelation ==
    \E a \in RelNames, b \in RelNames, c1 \in CardCh, c2 \in CardCh :
        InitOn([entity1 |-> a.name, c1 |-> c1, c2 |-> c2, entity2 |-> b.name],
               a.text \o <<" ", c1, "-", "-", c2, " ">> \o b.text)

Rendered(r) ==
    [kind |-> "Parsed", r |-> r, out |-> IF r.ok THEN relationship(r.val) ELSE <<>>]

ApplyRelation == Apply(Rendered(relation(input, 1)))

SpecRelation == InitRelation /\ [][ApplyRelation]_vars

----------------------------------------------------------------------------
(* What a document's writer meant, read off the lines of doc.              *)

IsEntityLine(l) == l.kind = "entity"
IsRelationLine(l) == l.kind = "relation"
IsAttributeLine(l) == l.kind = "attribute"
IsDirectiveLine(l) == l.kind = "directive"

HasKey(pairs, k) == \E n \in 1..Len(pairs) : pairs[n][1] = k

\* the value of the last pair of key k
LastValue(pairs, k) ==
    pairs[CHOOSE n \in 1..Len(pairs) :
            /\ pairs[n][1] = k
            /\ \A m \in (n + 1)..Len(pairs) : pairs[m][1] # k][2]

Overlay(pairs) ==
    [k \in {pairs[n][1] : n \in 1..Len(pairs)} |-> LastValue(pairs, k)]

\* the number of directive lines that open the document
LeadingRun(d) ==
    CHOOSE k \in 0..Len(d) :
        /\ \A n \in 1..k : IsDirectiveLine(d[n])
        /\ k = Len(d) \/ ~IsDirectiveLine(d[k + 1])

\* the pairs of the directive lines from..to of category cat, in document order
RECURSIVE PairsOf(_, _, _, _)
PairsOf(d, cat, from, to) ==
    IF from > to THEN <<>>
    ELSE (IF IsDirectiveLine(d[from]) /\ d[from].cat = cat THEN d[from].opts ELSE <<>>)
         \o PairsOf(d, cat, from + 1, to)

Min(a, b) == IF a < b THEN a ELSE b

\* the keys whose value is an Option<String> in the entity and relationship groups
StrKeys == {OPT_COLOR, OPT_LABEL}

Field(o, k) == IF k = OPT_COLOR THEN o.color ELSE o.label

Done == pc = "done"
DoneOk == pc = "done" /\ result.kind = "Ok"

----------------------------------------------------------------------------
\* C1: every entity and every relation keeps, for each option key set in its
\* own block, the value given there, whatever a directive of its category
\* sets for the same key.
C1_LocalValueKept ==
    DoneOk =>
        LET es == SelectSeq(doc, IsEntityLine)
            rs == SelectSeq(doc, IsRelationLine)
        IN  /\ \A n \in 1..Min(Len(es), Len(result.erd.entities)) :
                 \A k \in StrKeys :
                    HasKey(es[n].opts, k) =>
                        Field(result.erd.entities[n].options, k)
                            = Some(LastValue(es[n].opts, k))
            /\ \A n \in 1..Min(Len(rs), Len(result.erd.relationships)) :
                 \A k \in StrKeys :
                    HasKey(rs[n].opts, k) =>
                        Field(result.erd.relationships[n].options, k)
                            = Some(LastValue(rs[n].opts, k))

----------------------------------------------------------------------------
Resolved(own, ps, k) ==
    IF HasKey(ps, k) THEN Some(LastValue(ps, k))
    ELSE IF HasKey(own, k) THEN Some(LastValue(own, k))
    ELSE None

----------------------------------------------------------------------------
\* an attribute statement with no entity statement before it
Dangling(n) ==
    /\ n \in 1..Len(stmts)
    /\ stmts[n].t = "Attribute"
    /\ \A m \in 1..(n - 1) : stmts[m].t # "Entity"

\* C3, as the specification states it: when an attribute statement comes
\* before any entity statement, parse_erd returns the error of an attribute
\* without a preceding entity.
C3_DanglingAttributeError ==
    (Done /\ \E n \in 1..Len(stmts) : Dangling(n)) =>
        result = ResErr(AttributeWithoutEntity)

\* a relation statement ahead of the first dangling attribute, under a
\* relationship directive that does not merge
RelationFailsFirst ==
    /\ \E n \in 1..Len(stmts) :
          /\ Dangling(n)
          /\ \A m \in 1..(n - 1) : ~Dangling(m)
          /\ \E m \in 1..(n - 1) : stmts[m].t = "Relation"
    /\ ~IsOk(RelationshipOptions_from_hashmap(relationship_directive))

\* C3, amended: when an attribute statement comes before any entity
\* statement, parse_erd returns an error and no Diagram, and the attribute is
\* attached to nothing; the error is the one of an attribute without a
\* preceding entity, unless a relation statement ahead of the attribute has
\* already failed to merge the relationship directive, and then it is that
\* merge's error.
C3_DanglingAttributeFails ==
    (Done /\ \E n \in 1..Len(stmts) : Dangling(n)) =>
        /\ result.kind = "Err"
        /\ entities = <<>>
        /\ IF RelationFailsFirst
           THEN result.err \in
                    {o.err : o \in {x \in RelationshipOptions_from_hashmap(
                                              relationship_directive) : ~x.ok}}
           ELSE result = ResErr(AttributeWithoutEntity)

\* a directive, a relation that merges, then the attribute
C3_Witness ==
    /\ Done
    /\ Len(stmts) = 3
    /\ stmts[1].t = "GlobalOption"
    /\ stmts[2].t = "Relation"
    /\ Dangling(3)
    /\ idx = 3
    /\ Len(relationships) = 1
    /\ result = ResErr(AttributeWithoutEntity)

----------------------------------------------------------------------------
IsEntity(a) == a.t = "Entity"
IsAttribute(a) == a.t = "Attribute"

\* the positions of the entity statements among the statements n..m
RECURSIVE EntityPositions(_, _)
EntityPositions(n, m) ==
    IF n > m THEN <<>>
    ELSE (IF IsEntity(stmts[n]) THEN <<n>> ELSE <<>>) \o EntityPositions(n + 1, m)

\* the attribute statements after the entity statement at ps[j] and before
\* the next entity statement, among the first m statements
AttributesOf(ps, j, m) ==
    SelectSeq(SubSeq(stmts, ps[j] + 1, IF j < Len(ps) THEN ps[j + 1] - 1 ELSE m),
              IsAttribute)

\* C4: the entity list is the entity statements in document order, and each
\* entity's attribute list is the attribute statements between its
\* declaration and the next entity's, in document order; this holds of the
\* statements read so far at every step of the loop, and of the Diagram.
C4_AttributesFollowTheirEntity ==
    /\ pc # "start" =>
          LET m == idx - 1
              ps == EntityPositions(1, m)
          IN  /\ Len(entities) = Len(ps)
              /\ \A j \in 1..Len(ps) :
                    /\ entities[j].name = stmts[ps[j]].name
                    /\ entities[j].attribs = AttributesOf(ps, j, m)
    /\ DoneOk =>
          /\ idx = Len(stmts) + 1
          /\ result.erd.entities = entities
          /\ Len(result.erd.relationships)
                = Len(SelectSeq(stmts, LAMBDA a : a.t = "Relation"))

\* `[e]`, `*id`, `[e]`, a relation, `n`: two entities named e, the first with
\* id, the second with n
C4_Witness ==
    /\ DoneOk
    /\ Len(doc) = 5
    /\ IsEntityLine(doc[1]) /\ IsAttributeLine(doc[2]) /\ IsEntityLine(doc[3])
    /\ IsRelationLine(doc[4]) /\ IsAttributeLine(doc[5])
    /\ doc[2].name # doc[5].name
    /\ Len(result.erd.entities) = 2
    /\ result.erd.entities[1].name = result.erd.entities[2].name
    /\ Len(result.erd.entities[1].attribs) = 1
    /\ result.erd.entities[1].attribs[1].field = doc[2].name
    /\ Len(result.erd.entities[2].attribs) = 1
    /\ result.erd.entities[2].attribs[1].field = doc[5].name

----------------------------------------------------------------------------
\* every character other than whitespace is a `#` or follows one on its line
OnlyBlanksAndComments(s) ==
    \A n \in 1..Len(s) :
        s[n] \notin MultiSpaceCh \cup {"#"} =>
            \E m \in 1..(n - 1) :
                /\ s[m] = "#"
                /\ \A q \in m..n : s[q] # "\n"

\* C5: for every document of whitespace, blank lines and comments only,
\* parse_erd succeeds and the Diagram has no entity and no relation.
C5_BlankDocumentsAreEmptyDiagrams ==
    (Done /\ OnlyBlanksAndComments(input)) =>
        /\ result.kind = "Ok"
        /\ result.erd.entities = <<>>
        /\ result.erd.relationships = <<>>

----------------------------------------------------------------------------
\* C6: an attribute statement with a marker prefix over `*`, `+`, space and
\* tab parses to pk = (the prefix holds a `*`) and fk = (the prefix holds a
\* `+`), however often and in whatever order the markers occur, with the
\* identifier after the prefix as its field.
C6_MarkersSetFlags ==
    Done =>
        /\ result.r.ok
        /\ result.r.pos = Len(input) + 1
        /\ result.r.val.field = doc.name
        /\ result.r.val.pk = (\E n \in 1..Len(doc.marks) : doc.marks[n] = "*")
        /\ result.r.val.fk = (\E n \in 1..Len(doc.marks) : doc.marks[n] = "+")

\* `***++*foo`
C6_Witness ==
    /\ Done
    /\ doc.marks = <<"*", "*", "*", "+", "+", "*">>
    /\ doc.name = <<"f", "o", "o">>
    /\ result.r.ok
    /\ result.r.val.pk
    /\ result.r.val.fk

----------------------------------------------------------------------------
\* C7: an identifier written bare, or in double quotes, single quotes or
\* backticks, with spaces and tabs around it, parses to the name alone; a
\* quoted name keeps its spaces and the other two quote characters.
C7_QuotingKeepsTheName ==
    Done =>
        /\ result.r.ok
        /\ result.r.val = doc.body
        /\ result.r.pos = Len(input) + 1

\* the name `"` ` ` `'` in backticks, with blanks around it
C7_Witness ==
    /\ Done
    /\ doc.quote = Backtick
    /\ doc.body = <<"\"", " ", "'">>
    /\ Len(input) = Len(doc.body) + 6
    /\ result.r.ok
    /\ result.r.val = <<"\"", " ", "'">>

----------------------------------------------------------------------------
CardinalityOf(c) ==
    CASE c = "?" -> "ZeroOne"
      [] c = "1" -> "One"
      [] c = "*" -> "ZeroPlus"
      [] c = "+" -> "OnePlus"

GlyphOf(c) ==
    CASE c = "?" -> "{0,1}"
      [] c = "1" -> "1"
      [] c = "*" -> "0..N"
      [] c = "+" -> "1..N"

\* C8: `A c1--c2 B` parses to entity1 = A, entity2 = B, card1 and card2 the
\* cardinalities of c1 and c2, and renders as the edge "A" -- "B" with the
\* glyph of c2 as headlabel and the glyph of c1 as taillabel.
C8_RelationParsesAndRenders ==
    Done =>
        /\ result.r.ok
        /\ result.r.val.entity1 = doc.entity1
        /\ result.r.val.entity2 = doc.entity2
        /\ result.r.val.card1 = CardinalityOf(doc.c1)
        /\ result.r.val.card2 = CardinalityOf(doc.c2)
        /\ result.out = <<"\"", doc.entity1, "\" -- \"", doc.entity2,
                          "\" [ headlabel=\"", GlyphOf(doc.c2),
                          "\", taillabel=\"", GlyphOf(doc.c1), "\" ];\n">>

\* `E1 1--+ E2`
C8_Witness ==
    /\ Done
    /\ doc.entity1 = <<"E", "1">> /\ doc.entity2 = <<"E", "2">>
    /\ doc.c1 = "1" /\ doc.c2 = "+"
    /\ result.r.ok
    /\ result.out[6] = "1..N"
    /\ result.out[8] = "1"

----------------------------------------------------------------------------
UnknownKeys(pairs, known) ==
    {pairs[n][1] : n \in {m \in 1..Len(pairs) : pairs[m][1] \notin known}}

\* the errors the specification promises for the unrecognized keys of a
\* document: one per key, naming the key and the option group of its block
PromisedErrors(d) ==
    UNION {
        CASE IsEntityLine(d[n]) ->
                {ErrMsg("invalid entity option: ", k) :
                    k \in UnknownKeys(d[n].opts, EntityKeys \cup HeaderKeys)}
          [] IsAttributeLine(d[n]) ->
                {ErrMsg("invalid attribute option: ", k) :
                    k \in UnknownKeys(d[n].opts, AttributeKeys)}
          [] IsRelationLine(d[n]) ->
                {ErrMsg("invalid relationship option: ", k) :
                    k \in UnknownKeys(d[n].opts, RelationshipKeys)}
          [] IsDirectiveLine(d[n]) /\ d[n].cat = "Title" /\ n <= LeadingRun(d) ->
                {ErrMsg("invalid title option: ", k) :
                    k \in UnknownKeys(d[n].opts, TitleKeys)}
          [] IsDirectiveLine(d[n]) /\ d[n].cat = "Relationship"
                /\ n <= LeadingRun(d) /\ \E m \in 1..Len(d) : IsRelationLine(d[m]) ->
                {ErrMsg("invalid relationship option: ", k) :
                    k \in UnknownKeys(d[n].opts, RelationshipKeys)}
          [] OTHER -> {}
        : n \in 1..Len(d) }

\* C9: a document with an unrecognized key, in a block of its own on an
\* entity, an attribute or a relation or in a directive that gets merged,
\* makes parse_erd fail with an invalid-option error that names the key and
\* the option group of the block.
C9_UnknownKeyIsNamed ==
    (Done /\ PromisedErrors(doc) # {}
          /\ ~\E n \in 1..Len(doc) :
                /\ IsAttributeLine(doc[n])
                /\ \A m \in 1..(n - 1) : ~IsEntityLine(doc[m])) =>
        /\ result.kind = "Err"
        /\ result.err \in PromisedErrors(doc)

----------------------------------------------------------------------------
Accumulated(cat) ==
    CASE cat = "Title" -> title_directive
      [] cat = "Header" -> header_directive
      [] cat = "Entity" -> entity_directive
      [] cat = "Relationship" -> relationship_directive

\* C10: at every step, the accumulated defaults of each category are the
\* overlay, in document order, of all the pairs of the directive statements
\* of that category read so far: the last occurrence of a key wins, within a
\* block and across directives, and a key that is not repeated is retained.
C10_DirectivesAccumulate ==
    \A cat \in {"Title", "Header", "Entity", "Relationship"} :
        Accumulated(cat)
            = Overlay(PairsOf(doc, cat, 1, Min(idx - 1, LeadingRun(doc))))

\* `entity {label: "L", color: "pink", label: "M"}` then
\* `entity {color: "red"}`: label M, color red
C10_Witness ==
    /\ Done
    /\ Len(doc) >= 2
    /\ doc[1] = Dir("Entity", <<<<OPT_LABEL, <<"L">>>>, <<OPT_COLOR, pink>>,
                               <<OPT_LABEL, <<"M">>>>>>)
    /\ doc[2] = Dir("Entity", <<<<OPT_COLOR, red>>>>)
    /\ DOMAIN entity_directive = {OPT_LABEL, OPT_COLOR}
    /\ entity_directive[OPT_LABEL] = <<"M">>
    /\ entity_directive[OPT_COLOR] = red

----------------------------------------------------------------------------
(* The renderer (render.rs). What is written to the output is kept as the  *)
(* sequence of its characters.                                              *)

MaxMarks == 3

open_tag(t) == <<"<">> \o t \o <<">">>

close_tag(t) == <<"<", "/">> \o t \o <<">">>

RECURSIVE open_tag_attrs_from(_, _)
open_tag_attrs_from(attrs, n) ==
    IF n > Len(attrs) THEN <<>>
    ELSE <<" ">> \o attrs[n][1] \o <<"=", "\"">> \o attrs[n][2] \o <<"\"">>
         \o open_tag_attrs_from(attrs, n + 1)

open_tag_attrs(t, attrs) == <<"<">> \o t \o open_tag_attrs_from(attrs, 1) \o <<">">>

\* the local `field` of render_attribute: the name inside its key markup
render_attribute_field(a) ==
    CASE a.pk /\ a.fk -> <<"<","I",">","<","U",">">> \o a.field \o <<"<","/","U",">","<","/","I",">">>
      [] a.pk /\ ~a.fk -> <<"<","U",">">> \o a.field \o <<"<","/","U",">">>
      [] ~a.pk /\ a.fk -> <<"<","I",">">> \o a.field \o <<"<","/","I",">">>
      [] OTHER -> a.field

\* the match on a.options.label: the None arm writes a.field itself
render_attribute_cell(a) ==
    IF a.options.label # None
    THEN render_attribute_field(a) \o <<" ","[">> \o a.options.label[1] \o <<"]">>
    ELSE a.field

render_attribute(a) ==
    <<" "," "," "," ">> \o open_tag(<<"T","R">>)
    \o open_tag_attrs(<<"T","D">>, << <<<<"A","L","I","G","N">>, <<"L","E","F","T">>>> >>)
    \o render_attribute_cell(a)
    \o close_tag(<<"T","D">>) \o close_tag(<<"T","R">>) \o <<"\n">>

AttributeLabels ==
    { <<>>, << <<OPT_LABEL, <<"L">>>> >>, << <<OPT_LABEL, <<"a", " ", "b">>>> >> }

InitRenderAttribute ==
    \E m \in DocsOf({"*", "+", " "}, MaxMarks), f \in FieldTexts, l \in AttributeLabels :
        InitOn([marks |-> m, name |-> f.name, opts |-> l], m \o f.text \o WriteBlock(l))

RenderedAttribute(r) ==
    [kind |-> "Parsed", r |-> r, out |-> IF r.ok THEN render_attribute(r.val) ELSE <<>>]

ApplyRenderAttribute == Apply(RenderedAttribute(attribute(input, 1)))

SpecRenderAttribute == InitRenderAttribute /\ [][ApplyRenderAttribute]_vars

Has(m, c) == \E i \in 1..Len(m) : m[i] = c

Marked(m, name) ==
    CASE Has(m, "*") /\ Has(m, "+") -> <<"<","I",">","<","U",">">> \o name \o <<"<","/","U",">","<","/","I",">">>
      [] Has(m, "*") /\ ~Has(m, "+") -> <<"<","U",">">> \o name \o <<"<","/","U",">">>
      [] ~Has(m, "*") /\ Has(m, "+") -> <<"<","I",">">> \o name \o <<"<","/","I",">">>
      [] OTHER -> name

Suffix(l) == IF l = <<>> THEN <<>> ELSE <<" ","[">> \o l[1][2] \o <<"]">>

\* C11: the row written for an attribute shows its field name underlined when
\* it is a primary key, in italics when it is a foreign key, both when it is
\* both and plain when it is neither, whether or not a label is set; the
\* label, when set, follows the name in square brackets.
C11_KeysAreMarkedUp ==
    Done =>
        /\ result.r.ok
        /\ result.out = <<" "," "," "," ","<","T","R",">","<","T","D"," ","A","L","I","G","N","=","\"","L","E","F","T","\"",">">> \o Marked(doc.marks, doc.name)
                        \o Suffix(doc.opts) \o <<"<","/","T","D",">","<","/","T","R",">","\n">>

\* C11, the case the code gets right: with a label set the name carries its
\* key markup and the label follows it in square brackets.
C11_LabelledKeysAreMarkedUp ==
    (Done /\ doc.opts # <<>>) =>
        /\ result.r.ok
        /\ result.out = <<" "," "," "," ","<","T","R",">","<","T","D"," ","A","L","I","G","N","=","\"","L","E","F","T","\"",">">> \o Marked(doc.marks, doc.name)
                        \o Suffix(doc.opts) \o <<"<","/","T","D",">","<","/","T","R",">","\n">>

----------------------------------------------------------------------------
(* render_erd, run on the Diagram parse_erd returned (main.rs).             *)

\* u8::to_string / the {} of format! on a u8
RECURSIVE to_string(_)
to_string(n) ==
    IF n < 10 THEN <<Slice(<<"0","1","2","3","4","5","6","7","8","9">>, n + 1, n + 2)[1]>>
    ELSE to_string(n \div 10) \o to_string(n % 10)

RECURSIVE attributes_from(_, _)
attributes_from(opts, n) ==
    IF n > Len(opts) THEN <<>>
    ELSE <<" "," "," "," "," "," "," "," ">> \o opts[n][1] \o <<"=">> \o opts[n][2] \o <<",","\n">>
         \o attributes_from(opts, n + 1)

attributes(name, opts) ==
    <<" "," "," "," ">> \o name \o <<" ","[","\n">> \o attributes_from(opts, 1) \o <<" "," "," "," ","]",";","\n">>

\* graph_attrs with the default size written into the title
graph_attrs_default_size(erd) ==
    (IF erd.title_options.label # None
     THEN << <<<<"l","a","b","e","l">>, <<"<","<","F","O","N","T"," ","P","O","I","N","T","-","S","I","Z","E","=","\"">> \o to_string(30)
                           \o <<"\"",">">> \o erd.title_options.label[1] \o <<"<","/","F","O","N","T",">",">">>>>,
             <<<<"l","a","b","e","l","j","u","s","t">>, <<"l">>>>,
             <<<<"l","a","b","e","l","l","o","c">>, <<"t">>>> >>
     ELSE <<>>)
    \o << <<<<"r","a","n","k","d","i","r">>, <<"L","R">>>>, <<<<"s","p","l","i","n","e","s">>, <<"s","p","l","i","n","e">>>> >>

\* the vector graph_attrs of render_erd
graph_attrs(erd) ==
    (IF erd.title_options.label # None
     THEN << <<<<"l","a","b","e","l">>, <<"<","<","F","O","N","T"," ","P","O","I","N","T","-","S","I","Z","E","=","\"">> \o to_string(erd.title_options.size)
                           \o <<"\"",">">> \o erd.title_options.label[1] \o <<"<","/","F","O","N","T",">",">">>>>,
             <<<<"l","a","b","e","l","j","u","s","t">>, <<"l">>>>,
             <<<<"l","a","b","e","l","l","o","c">>, <<"t">>>> >>
     ELSE <<>>)
    \o << <<<<"r","a","n","k","d","i","r">>, <<"L","R">>>>, <<<<"s","p","l","i","n","e","s">>, <<"s","p","l","i","n","e">>>> >>

RECURSIVE render_attributes(_, _)
render_attributes(as, n) ==
    IF n > Len(as) THEN <<>> ELSE render_attribute(as[n]) \o render_attributes(as, n + 1)

\* the vector attrs of Renderer::entity
table_attrs(e) ==
    << <<<<"B","O","R","D","E","R">>, to_string(e.header_options.border)>>,
       <<<<"C","E","L","L","B","O","R","D","E","R">>, to_string(e.header_options.cell_border)>>,
       <<<<"C","E","L","L","P","A","D","D","I","N","G">>, to_string(e.header_options.cell_padding)>>,
       <<<<"C","E","L","L","S","P","A","C","I","N","G">>, to_string(e.header_options.cell_spacing)>> >>
    \o (IF e.options.background_color # None
        THEN << <<<<"B","G","C","O","L","O","R">>, e.options.background_color[1]>> >>
        ELSE <<>>)

Renderer_entity(e) ==
    <<" "," "," "," ","\"">> \o e.name \o <<"\""," ","[","\n"," "," "," "," "," "," "," "," ","l","a","b","e","l","=","<","\n">>
    \o open_tag_attrs(<<"F","O","N","T">>, << <<<<"F","A","C","E">>, e.header_options.font>> >>)
    \o <<"\n"," "," ">>
    \o open_tag_attrs(<<"T","A","B","L","E">>, table_attrs(e))
    \o <<"\n"," "," "," "," ","<","T","R",">","<","T","D",">","<","B",">","<","F","O","N","T"," ","P","O","I","N","T","-","S","I","Z","E","=","\"">> \o to_string(e.header_options.size)
    \o <<"\"",">">> \o e.name \o <<"<","/","F","O","N","T",">","<","/","B",">","<","/","T","D",">","<","/","T","R",">","\n">>
    \o render_attributes(e.attribs, 1)
    \o <<" "," ","<","/","T","A","B","L","E",">","\n","<","/","F","O","N","T",">","\n",">","]",";","\n">>

\* what render_erd writes, part by part in the order written
render_erd(erd) ==
    [header |-> <<"g","r","a","p","h"," ","{","\n">>,
     graph |-> attributes(<<"g","r","a","p","h">>, graph_attrs(erd)),
     node |-> attributes(<<"n","o","d","e">>, << <<<<"l","a","b","e","l">>, <<"\"","\\","N","\"">>>>,
                                       <<<<"s","h","a","p","e">>, <<"p","l","a","i","n","t","e","x","t">>>> >>),
     edge |-> attributes(<<"e","d","g","e">>, << <<<<"c","o","l","o","r">>, <<"g","r","a","y","5","0">>>>,
                                       <<<<"m","i","n","l","e","n">>, <<"2">>>>,
                                       <<<<"s","t","y","l","e">>, <<"d","a","s","h","e","d">>>> >>),
     entities |-> [n \in 1..Len(erd.entities) |-> Renderer_entity(erd.entities[n])],
     relationships |-> [n \in 1..Len(erd.relationships) |->
                            relationship(erd.relationships[n])],
     footer |-> <<"}","\n">>]

RenderStep ==
    /\ pc = "done"
    /\ result.kind = "Ok"
    /\ pc' = "rendered"
    /\ result' = [kind |-> "Rendered", erd |-> result.erd, out |-> render_erd(result.erd)]
    /\ UNCHANGED <<doc, input, stmts, idx, entities, relationships, title_directive,
                   header_directive, entity_directive, relationship_directive>>

NextRender == Next \/ RenderStep

RenderLines ==
    { Dir("Title", << <<OPT_LABEL, <<"T">>>> >>),
      Dir("Title", << <<OPT_SIZE, <<"1", "2">>>> >>),
      Dir("Title", << <<OPT_LABEL, <<"U", " ", "2">>>>, <<OPT_SIZE, <<"8">>>> >>),
      Dir("Title", << <<OPT_SIZE, <<"x">>>> >>),
      Dir("Header", << <<OPT_SIZE, <<"1", "2">>>> >>),
      Ent(<<"e">>, << <<OPT_BACKGROUND_COLOR, red>> >>),
      Att(<<"*">>, <<"i", "d">>, <<>>),
      Rel(<<"e">>, "1", "*", <<"e">>, <<>>) }

InitRender == \E d \in DocsOf(RenderLines, MaxStmts) : InitOn(d, WriteDoc(d, 1))

SpecRender == InitRender /\ [][NextRender]_vars

RenderedOk == pc = "rendered"

TitlePairs == PairsOf(doc, "Title", 1, LeadingRun(doc))

TitleSizeText == IF HasKey(TitlePairs, OPT_SIZE) THEN LastValue(TitlePairs, OPT_SIZE) ELSE <<"3","0">>

\* C12: the graph block of the output holds the three title entries exactly
\* when the resolved title has a label; the label is then written at the
\* size the title directives set, and at 30 when none sets one; rankdir and
\* splines are written in every case.
C12_TitleBlock ==
    RenderedOk =>
        /\ (result.erd.title_options.label # None) <=> HasKey(TitlePairs, OPT_LABEL)
        /\ result.out.graph =
             <<" "," "," "," ","g","r","a","p","h"," ","[","\n">>
             \o (IF result.erd.title_options.label # None
                 THEN <<" "," "," "," "," "," "," "," ","l","a","b","e","l","=","<","<","F","O","N","T"," ","P","O","I","N","T","-","S","I","Z","E","=","\"">> \o TitleSizeText \o <<"\"",">">>
                      \o result.erd.title_options.label[1] \o <<"<","/","F","O","N","T",">",">",",","\n">>
                      \o <<" "," "," "," "," "," "," "," ","l","a","b","e","l","j","u","s","t","=","l",",","\n"," "," "," "," "," "," "," "," ","l","a","b","e","l","l","o","c","=","t",",","\n">>
                 ELSE <<>>)
             \o <<" "," "," "," "," "," "," "," ","r","a","n","k","d","i","r","=","L","R",",","\n"," "," "," "," "," "," "," "," ","s","p","l","i","n","e","s","=","s","p","l","i","n","e",",","\n"," "," "," "," ","]",";","\n">>

C12_Witness ==
    /\ RenderedOk
    /\ result.erd.title_options.label = Some(<<"T">>)
    /\ HasKey(TitlePairs, OPT_SIZE)
    /\ Len(result.erd.entities) > 0

----------------------------------------------------------------------------
(* parse_erd on arbitrary text: every string of up to MaxTokens tokens.     *)

MaxTokens == 3

Tokens ==
    { <<"*">>, <<"+">>, <<"?">>, <<"1">>, <<"-">>, <<" ">>, <<"\t">>, <<"\n">>,
      <<"e">>, <<"[", "e", "]">>, KwTitle, <<"e", "*", "-", "-", "+", "e">> }

RECURSIVE Concat(_, _)
Concat(d, n) == IF n > Len(d) THEN <<>> ELSE d[n] \o Concat(d, n + 1)

InitTotal == \E d \in DocsOf(Tokens, MaxTokens) : InitOn(d, Concat(d, 1))

SpecTotal == InitTotal /\ [][Next]_vars

\* C13: parse_erd never reaches a panic! arm: at every step it goes on with
\* one of the four kinds of statement, and it ends with Ok and a Diagram or
\* with Err and a message and nothing else.
C13_ParseErdIsTotal ==
    /\ result.kind # "Panic"
    /\ (pc = "loop" /\ idx <= Len(stmts)) =>
           stmts[idx].t \in {"Entity", "Relation", "Attribute", "GlobalOption"}
    /\ Done => \/ result.kind = "Ok" /\ DOMAIN result = {"kind", "erd"}
               \/ result.kind = "Err" /\ DOMAIN result = {"kind", "err"}

\* a relation was read and kept, then an attribute with a marker had no entity
C13_Witness ==
    /\ Done
    /\ result.kind = "Err"
    /\ Len(relationships) > 0
    /\ Has(input, "*")

----------------------------------------------------------------------------
(* One directive of each category among entities and relations.            *)

TargetLines ==
    { Dir("Title", << <<OPT_LABEL, <<"T">>>> >>),
      Dir("Header", << <<OPT_COLOR, pink>> >>),
      Dir("Entity", << <<OPT_COLOR, red>> >>),
      Dir("Relationship", << <<OPT_LABEL, <<"R">>>> >>),
      Ent(<<"e">>, <<>>),
      Ent(<<"f">>, << <<OPT_LABEL, <<"L">>>> >>),
      Rel(<<"e">>, "1", "*", <<"f">>, <<>>),
      Att(<<"+">>, <<"i", "d">>, <<>>) }

InitTargets == \E d \in DocsOf(TargetLines, MaxStmts) : InitOn(d, WriteDoc(d, 1))

SpecTargets == InitTargets /\ [][Next]_vars

\* the pairs of the leading directives of category cat
Leading(cat) == PairsOf(doc, cat, 1, LeadingRun(doc))

\* C14: each option set is what its own block and the leading directives of
\* its own category make it, whatever the directives of the other three
\* categories say: an entity's entity-level set follows the entity
\* directives, its header set the header directives, a relation's set the
\* relationship directives, the title the title directives.
C14_EachCategoryItsOwnTarget ==
    DoneOk =>
        LET es == SelectSeq(doc, IsEntityLine)
            rs == SelectSeq(doc, IsRelationLine)
        IN  /\ Len(result.erd.entities) = Len(es)
            /\ Len(result.erd.relationships) = Len(rs)
            /\ \A n \in 1..Len(es) :
                  /\ result.erd.entities[n].options =
                       [EntityOptions_default EXCEPT
                          !.color = Resolved(es[n].opts, Leading("Entity"), OPT_COLOR),
                          !.label = Resolved(es[n].opts, Leading("Entity"), OPT_LABEL)]
                  /\ result.erd.entities[n].header_options =
                       [HeaderOptions_default EXCEPT
                          !.color = Resolved(es[n].opts, Leading("Header"), OPT_COLOR),
                          !.label = Resolved(es[n].opts, Leading("Header"), OPT_LABEL)]
            /\ \A n \in 1..Len(rs) :
                  result.erd.relationships[n].options =
                       [RelationshipOptions_default EXCEPT
                          !.color = Resolved(rs[n].opts, Leading("Relationship"), OPT_COLOR),
                          !.label = Resolved(rs[n].opts, Leading("Relationship"), OPT_LABEL)]
            /\ result.erd.title_options =
                  [TitleOptions_default EXCEPT
                     !.color = Resolved(<<>>, Leading("Title"), OPT_COLOR),
                     !.label = Resolved(<<>>, Leading("Title"), OPT_LABEL)]

\* `entity {color: "red"}` then `[e]`: e's color is red, its header set is
\* the default one
C14_Witness ==
    /\ DoneOk
    /\ doc = <<Dir("Entity", << <<OPT_COLOR, red>> >>), Ent(<<"e">>, <<>>)>>
    /\ result.erd.entities[1].options.color = Some(red)
    /\ result.erd.entities[1].header_options = HeaderOptions_default

----------------------------------------------------------------------------
(* entity on `[e]` with every block of up to MaxPairs pairs.                *)

MaxPairs == 2

BlockPairs ==
    { <<OPT_COLOR, red>>, <<OPT_COLOR, blue>>, <<OPT_LABEL, <<"L">>>>,
      <<OPT_FONT, <<"F">>>>, <<OPT_BACKGROUND_COLOR, pink>>,
      <<OPT_SIZE, <<"1", "0">>>>, <<OPT_SIZE, <<"x">>>>, <<OPT_SIZE, <<"2", "5", "6">>>>,
      <<OPT_BORDER, <<"2">>>>, <<OPT_BORDER, <<"-", "1">>>>, <<bogus, <<"x">>>> }

InitEntity ==
    \E ps \in DocsOf(BlockPairs, MaxPairs) :
        InitOn(Ent(<<"e">>, ps), WriteLine(Ent(<<"e">>, ps)))

ApplyEntity == Apply(Parsed1(entity(input, 1)))

SpecEntity == InitEntity /\ [][ApplyEntity]_vars

\* the number a value is the decimal form of, when it is one of 0..255
Numerals ==
    { <<<<"0">>, 0>>, <<<<"2">>, 2>>, <<<<"7">>, 7>>, <<<<"1", "0">>, 10>>,
      <<<<"0", "0", "7">>, 7>>, <<<<"+", "5">>, 5>>, <<<<"2", "5", "5">>, 255>> }
IsNumeral(v) == \E p \in Numerals : p[1] = v
NumberOf(v) == (CHOOSE p \in Numerals : p[1] = v)[2]

UnknownToBoth(pairs) ==
    \E n \in 1..Len(pairs) : pairs[n][1] \notin EntityKeys \cup HeaderKeys

BadNumber(pairs) ==
    \E k \in {OPT_SIZE, OPT_BORDER} : HasKey(pairs, k) /\ ~IsNumeral(LastValue(pairs, k))

\* both option sets hold the block's value for each key of the block
BothPopulated(pairs, e) ==
    /\ \A k \in {OPT_COLOR, OPT_LABEL} : HasKey(pairs, k) =>
          /\ Field(e.options, k) = Some(LastValue(pairs, k))
          /\ Field(e.header_options, k) = Some(LastValue(pairs, k))
    /\ HasKey(pairs, OPT_BACKGROUND_COLOR) =>
          /\ e.options.background_color = Some(LastValue(pairs, OPT_BACKGROUND_COLOR))
          /\ e.header_options.background_color = Some(LastValue(pairs, OPT_BACKGROUND_COLOR))
    /\ HasKey(pairs, OPT_FONT) =>
          /\ e.options.font = LastValue(pairs, OPT_FONT)
          /\ e.header_options.font = LastValue(pairs, OPT_FONT)
    /\ HasKey(pairs, OPT_SIZE) =>
          /\ e.options.size = Some(NumberOf(LastValue(pairs, OPT_SIZE)))
          /\ e.header_options.size = NumberOf(LastValue(pairs, OPT_SIZE))
    /\ HasKey(pairs, OPT_BORDER) =>
          /\ e.options.border = NumberOf(LastValue(pairs, OPT_BORDER))
          /\ e.header_options.border = NumberOf(LastValue(pairs, OPT_BORDER))

\* C15, as the specification states it: the block populates both option
\* sets, and the entity statement is rejected only when one of its keys is
\* recognized by neither group.
C15_RejectedOnlyForUnknownKey ==
    Done =>
        /\ ~result.r.ok <=> UnknownToBoth(doc.opts)
        /\ result.r.ok => BothPopulated(doc.opts, result.r.val)

\* C15, amended: the block populates both option sets, and the entity
\* statement is rejected exactly when one of its keys is recognized by
\* neither group or the value of its size or border is not a number of
\* 0..255.
C15_BlockPopulatesBothSets ==
    Done =>
        /\ ~result.r.ok <=> (UnknownToBoth(doc.opts) \/ BadNumber(doc.opts))
        /\ result.r.ok => BothPopulated(doc.opts, result.r.val)

C15_Witness ==
    /\ Done
    /\ doc.opts = << <<OPT_SIZE, <<"1", "0">>>>, <<OPT_COLOR, red>> >>
    /\ result.r.ok
    /\ result.r.val.options.size = Some(10)
    /\ result.r.val.header_options.size = 10
    /\ result.r.val.header_options.color = Some(red)

----------------------------------------------------------------------------
(* One numeric option, in each place a document can write it.              *)

NumberTexts ==
    { <<"0">>, <<"7">>, <<"0", "0", "7">>, <<"+", "5">>, <<"2", "5", "5">>,
      <<"2", "5", "6">>, <<"-", "1">>, <<"x">>, <<"1", "x">> }

\* a directive that sets key k, then an entity and a relation it applies to
InDirective(cat, k, v) ==
    [place |-> cat, local |-> FALSE, key |-> k, val |-> v,
     lines |-> <<Dir(cat, << <<k, v>> >>), Ent(<<"e">>, <<>>),
                 Rel(<<"e">>, "1", "*", <<"e">>, <<>>)>>]

InEntity(k, v) ==
    [place |-> "Entity", local |-> TRUE, key |-> k, val |-> v,
     lines |-> <<Ent(<<"e">>, << <<k, v>> >>)>>]

InRelation(v) ==
    [place |-> "Relationship", local |-> TRUE, key |-> OPT_SIZE, val |-> v,
     lines |-> <<Rel(<<"e">>, "1", "*", <<"e">>, << <<OPT_SIZE, v>> >>)>>]

InAttribute(v) ==
    [place |-> "Attribute", local |-> TRUE, key |-> OPT_BORDER, val |-> v,
     lines |-> <<Ent(<<"e">>, <<>>), Att(<<>>, <<"f">>, << <<OPT_BORDER, v>> >>)>>]

NumberDocs ==
    UNION { { InDirective("Title", OPT_SIZE, v), InDirective("Header", OPT_SIZE, v),
              InDirective("Header", OPT_BORDER, v), InDirective("Entity", OPT_SIZE, v),
              InDirective("Entity", OPT_BORDER, v),
              InDirective("Relationship", OPT_SIZE, v),
              InEntity(OPT_SIZE, v), InEntity(OPT_BORDER, v), InRelation(v),
              InAttribute(v) } : v \in NumberTexts }

InitNumbers == \E d \in NumberDocs : InitOn(d, WriteDoc(d.lines, 1))

SpecNumbers == InitNumbers /\ [][Next]_vars

\* the option written by doc, as the Diagram holds it
StoredNumber(erd) ==
    CASE doc.place = "Title" -> Some(erd.title_options.size)
      [] doc.place = "Header" /\ doc.key = OPT_SIZE ->
            Some(erd.entities[1].header_options.size)
      [] doc.place = "Header" /\ doc.key = OPT_BORDER ->
            Some(erd.entities[1].header_options.border)
      [] doc.place = "Entity" /\ doc.key = OPT_SIZE -> erd.entities[1].options.size
      [] doc.place = "Entity" /\ doc.key = OPT_BORDER ->
            Some(erd.entities[1].options.border)
      [] doc.place = "Relationship" -> erd.relationships[1].options.size
      [] doc.place = "Attribute" -> erd.entities[1].attribs[1].options.border

\* the error that names the field and the value
NumberError ==
    ErrMsg(IF doc.key = OPT_SIZE THEN "could not parse size as integer: "
           ELSE "could not parse border as integer: ", doc.val)

\* C16: a size or border whose value is a decimal integer of 0..255 is stored
\* as that integer, in every option group; with any other value parse_erd
\* fails, and its error names the field and the value.
C16_NumbersStoredOrNamed ==
    Done =>
        IF IsNumeral(doc.val)
        THEN /\ result.kind = "Ok"
             /\ StoredNumber(result.erd) = Some(NumberOf(doc.val))
        ELSE result = ResErr(NumberError)

\* C16, where the code does it: the same, with the error named when the
\* option is written in a directive; in a local block the failure is the
\* syntax error of the whole document.
C16_NumbersStoredOrRejected ==
    Done =>
        IF IsNumeral(doc.val)
        THEN /\ result.kind = "Ok"
             /\ StoredNumber(result.erd) = Some(NumberOf(doc.val))
        ELSE /\ result.kind = "Err"
             /\ ~doc.local => result = ResErr(NumberError)
             /\ doc.local => result.err.text = "Parsing Error: Nom(_, Eof)"

----------------------------------------------------------------------------
(* options on the block {k: "v", l: "w"} with blanks and comments put       *)
(* between its tokens.                                                      *)

MaxFill == 2

FillAtoms == { <<" ">>, <<"\n">>, <<"#", "c", "\n">> }

Fillers == { Concat(f, 1) : f \in DocsOf(FillAtoms, MaxFill) }

\* the gaps: 1 after `{`, 2 and 3 around the first `:`, 4 and 5 around the
\* comma, 6 and 7 around the second `:`, 8 before `}`
Gaps == 1..8

TwoPairs == << <<<<"k">>, <<"v">>>>, <<<<"l">>, <<"w">>>> >>

WriteGaps(fill) ==
    <<"{">> \o fill[1] \o <<"k">> \o fill[2] \o <<":">> \o fill[3] \o <<"\"", "v", "\"">>
    \o fill[4] \o <<",">> \o fill[5]
    \o <<"l">> \o fill[6] \o <<":">> \o fill[7] \o <<"\"", "w", "\"">>
    \o fill[8] \o <<"}">>

FillOf(g, f1, h, f2) == [n \in Gaps |-> IF n = g THEN f1 ELSE IF n = h THEN f2 ELSE <<>>]

InitGaps ==
    \E g \in Gaps, h \in Gaps, f1 \in Fillers, f2 \in Fillers :
        InitOn([pairs |-> TwoPairs, fill |-> FillOf(g, f1, h, f2)],
               WriteGaps(FillOf(g, f1, h, f2)))

ApplyOptions == Apply(Parsed1(options(input, 1)))

SpecGaps == InitGaps /\ [][ApplyOptions]_vars

\* C17: whatever blanks, newlines and comment lines stand between the tokens
\* of an option block, the block is accepted whole and gives the pairs of
\* the block written without them.
C17_BlanksAndCommentsBetweenTokens ==
    Done =>
        /\ result.r.ok
        /\ result.r.pos = Len(input) + 1
        /\ result.r.val = doc.pairs

Comments(f) == Cardinality({n \in 1..Len(f) : f[n] = "#"})

\* C17, as far as the code goes: blanks and newlines after `{`; spaces
\* around a `:`; blanks, newlines and one comment before the comma, after
\* it, and before `}`.
C17_WhereTheCodeAcceptsThem ==
    (/\ Done
     /\ ~Has(doc.fill[1], "#")
     /\ \A g \in {2, 3, 6, 7} : ~Has(doc.fill[g], "#") /\ ~Has(doc.fill[g], "\n")
     /\ \A g \in {4, 5, 8} : Comments(doc.fill[g]) <= 1) =>
        /\ result.r.ok
        /\ result.r.pos = Len(input) + 1
        /\ result.r.val = doc.pairs

----------------------------------------------------------------------------
(* options on a block whose pairs are followed by commas and blanks.        *)

MaxTail == 4

TailCh == {",", " ", "\n"}

PairLists == { <<>>, << <<<<"k">>, <<"v">>>> >>, TwoPairs }

RECURSIVE WriteTight(_, _)
WriteTight(pairs, n) ==
    IF n > Len(pairs) THEN <<>>
    ELSE (IF n > 1 THEN <<",">> ELSE <<>>)
         \o pairs[n][1] \o <<":", "\"">> \o pairs[n][2] \o <<"\"">>
         \o WriteTight(pairs, n + 1)

InitCommas ==
    \E ps \in PairLists, tl \in DocsOf(TailCh, MaxTail) :
        InitOn([pairs |-> ps, tail |-> tl], <<"{">> \o WriteTight(ps, 1) \o tl \o <<"}">>)

SpecCommas == InitCommas /\ [][ApplyOptions]_vars

Commas(f) == Cardinality({n \in 1..Len(f) : f[n] = ","})

\* C18: a block whose last pair is followed by one comma, with blanks around
\* it, gives the pairs of the block without the comma; no other comma
\* without a pair after it is accepted: two commas or more, or a comma after
\* no pair, make options fail.
C18_OneTrailingCommaOnly ==
    Done =>
        IF Commas(doc.tail) = 0 \/ (Commas(doc.tail) = 1 /\ doc.pairs # <<>>)
        THEN /\ result.r.ok
             /\ result.r.pos = Len(input) + 1
             /\ result.r.val = doc.pairs
        ELSE ~result.r.ok

\* C18, the part the code keeps: commas and blanks before `}` never change
\* the pairs
C18_TrailingCommasIgnored ==
    Done =>
        /\ result.r.ok
        /\ result.r.pos = Len(input) + 1
        /\ result.r.val = doc.pairs

----------------------------------------------------------------------------
(* Relations and bare names, at every statement position.                  *)

ShapeLines ==
    { Dir("Entity", << <<OPT_COLOR, red>> >>),
      Ent(<<"e">>, <<>>),
      Rel(<<"e">>, "1", "*", <<"f">>, <<>>),
      Rel(<<"f">>, "?", "+", <<"e">>, << <<OPT_COLOR, blue>> >>),
      Rel(<<"e", "1">>, "*", "1", <<"1">>, <<>>),
      Att(<<>>, <<"e">>, <<>>),
      Att(<<>>, <<"e", "1">>, << <<OPT_LABEL, <<"L">>>> >>),
      Att(<<"*">>, <<"i", "d">>, <<>>) }

InitShapes == \E d \in DocsOf(ShapeLines, MaxStmts) : InitOn(d, WriteDoc(d, 1))

SpecShapes == InitShapes /\ [][Next]_vars

\* C19: after the leading directives, a line of the shape name, cardinality,
\* `--`, cardinality, name is read as one Relation with these names and
\* cardinalities, and a line whose name is followed by no such infix is
\* read as one Attribute of that name with neither flag set.
C19_RelationBeforeAttribute ==
    pc # "start" =>
        /\ Len(stmts) = Len(doc)
        /\ \A n \in (LeadingRun(doc) + 1)..Len(doc) :
              /\ IsRelationLine(doc[n]) =>
                    /\ stmts[n].t = "Relation"
                    /\ stmts[n].entity1 = doc[n].name
                    /\ stmts[n].entity2 = doc[n].name2
                    /\ stmts[n].card1 = CardinalityOf(doc[n].c1)
                    /\ stmts[n].card2 = CardinalityOf(doc[n].c2)
              /\ (IsAttributeLine(doc[n]) /\ doc[n].marks = <<>>) =>
                    /\ stmts[n].t = "Attribute"
                    /\ stmts[n].field = doc[n].name
                    /\ ~stmts[n].pk /\ ~stmts[n].fk
              /\ IsDirectiveLine(doc[n]) =>
                    /\ stmts[n].t = "Attribute"
                    /\ stmts[n].field = Keyword(doc[n].cat)
                    /\ ~stmts[n].pk /\ ~stmts[n].fk

\* an entity, then a relation whose first name is that of the entity, then
\* the bare name
C19_Witness ==
    /\ pc = "done"
    /\ result.kind = "Ok"
    /\ Len(doc) = 3
    /\ IsEntityLine(doc[1])
    /\ doc[2] = Rel(<<"e">>, "1", "*", <<"f">>, <<>>)
    /\ doc[3] = Att(<<>>, <<"e">>, <<>>)
    /\ Len(result.erd.relationships) = 1
    /\ Len(result.erd.entities[1].attribs) = 1

----------------------------------------------------------------------------
(* Statements written one after the other, on one line or on several.      *)

LineStmts ==
    { Dir("Entity", << <<OPT_COLOR, red>> >>),
      Ent(<<"a">>, <<>>),
      Att(<<>>, <<"b">>, <<>>),
      Att(<<>>, <<"c">>, <<>>),
      Rel(<<"a">>, "1", "*", <<"a">>, <<>>) }

Seps == { <<" ">>, <<"\n">>, <<" ", "#", "x", "\n">> }

RECURSIVE Join(_, _, _)
Join(d, sep, n) ==
    IF n > Len(d) THEN <<>>
    ELSE WriteLine(d[n]) \o (IF n < Len(d) THEN sep[n] ELSE <<>>) \o Join(d, sep, n + 1)

InitLine ==
    \E d \in DocsOf(LineStmts, MaxStmts), sep \in [1..(MaxStmts - 1) -> Seps] :
        InitOn([lines |-> d, sep |-> sep], Join(d, sep, 1))

SpecLine == InitLine /\ [][Next]_vars

\* two statements of the document stand on one line
SharedLine ==
    \E n \in 1..(Len(doc.lines) - 1) : ~Has(doc.sep[n], "\n")

\* C20: every statement starts on a line of its own: a document in which two
\* statements share a line is not read as that sequence of statements, it
\* is rejected by the parser.
C20_OneStatementPerLine ==
    (pc # "start" /\ SharedLine) =>
        /\ stmts = <<>>
        /\ result.kind = "Err"
        /\ result.err.text = "Parsing Error: Nom(_, Eof)"

\* `[a] b c` is read as an entity and its two attributes
C20_Example ==
    /\ DoneOk
    /\ input = <<"[", "a", "]", " ", "b", " ", "c">>
    /\ Len(result.erd.entities) = 1
    /\ Len(result.erd.entities[1].attribs) = 2

\* C20, what the code does: the statements are read the same whether a
\* space, a line end or a comment stands between them
C20_SeparatorsAreAlike ==
    pc # "start" =>
        /\ Len(stmts) = Len(doc.lines)
        /\ \A n \in 1..Len(stmts) :
              stmts[n].t =
                 CASE IsEntityLine(doc.lines[n]) -> "Entity"
                   [] IsRelationLine(doc.lines[n]) -> "Relation"
                   [] IsAttributeLine(doc.lines[n]) -> "Attribute"
                   [] IsDirectiveLine(doc.lines[n]) ->
                        IF n <= LeadingRun(doc.lines) THEN "GlobalOption" ELSE "Attribute"

----------------------------------------------------------------------------
(* parse_erd called twice on the same input.                                *)

TwiceLines ==
    { Dir("Title", << <<OPT_SIZE, <<"x">>>>, <<bogus, <<"y">>>> >>),
      Dir("Title", << <<OPT_LABEL, <<"T">>>> >>),
      Dir("Entity", << <<OPT_SIZE, <<"x">>>>, <<bogus, <<"y">>>> >>),
      Dir("Relationship", << <<bogus, <<"y">>>> >>),
      Ent(<<"e">>, << <<OPT_COLOR, red>> >>),
      Rel(<<"e">>, "1", "*", <<"e">>, <<>>),
      Att(<<"*">>, <<"i", "d">>, <<>>) }

InitTwice ==
    \E d \in DocsOf(TwiceLines, MaxStmts) :
        InitOn([lines |-> d, first |-> NoResult], WriteDoc(d, 1))

\* the second call: the first result is kept aside and parse_erd starts
\* again from its fresh locals on the same input
CallAgain ==
    /\ pc = "done"
    /\ doc.first = NoResult
    /\ doc' = [doc EXCEPT !.first = result]
    /\ pc' = "start"
    /\ stmts' = <<>>
    /\ idx' = 1
    /\ entities' = <<>>
    /\ relationships' = <<>>
    /\ title_directive' = EmptyMap
    /\ header_directive' = EmptyMap
    /\ entity_directive' = EmptyMap
    /\ relationship_directive' = EmptyMap
    /\ result' = NoResult
    /\ UNCHANGED input

NextTwice == Next \/ CallAgain

SpecTwice == InitTwice /\ [][NextTwice]_vars

SecondDone == pc = "done" /\ doc.first # NoResult

\* C21: a second call of parse_erd on the same input returns what the first
\* call returned, the same Diagram or the same error message, also when a
\* block or a directive mapping holds several invalid entries.
C21_SameInputSameResult ==
    SecondDone => result = doc.first

\* C21, the part that holds: two calls agree on success or failure, and on
\* the Diagram when they succeed
C21_SameInputSameDiagram ==
    SecondDone =>
        /\ result.kind = doc.first.kind
        /\ result.kind = "Ok" => result = doc.first

\* the two calls on `title {size: "x", bogus: "y"}` return different errors
C21_Example ==
    /\ SecondDone
    /\ doc.lines = <<Dir("Title", << <<OPT_SIZE, <<"x">>>>, <<bogus, <<"y">>>> >>)>>
    /\ doc.first = ResErr(ErrMsg("could not parse size as integer: ", <<"x">>))
    /\ result = ResErr(ErrMsg("invalid header option: ", <<"y">>))

----------------------------------------------------------------------------
\* the accumulator of category cat once the statements from..Len(stmts) have
\* been consumed, starting from acc
RECURSIVE FinalDirective(_, _, _)
FinalDirective(cat, from, acc) ==
    IF from > Len(stmts) THEN acc
    ELSE FinalDirective(cat, from + 1,
                        IF stmts[from].t = "GlobalOption" /\ stmts[from].option_type = cat
                        THEN extend(acc, stmts[from].options)
                        ELSE acc)

\* the n-th statement of kind t
NthOf(t, n) ==
    stmts[CHOOSE i \in 1..Len(stmts) :
            /\ stmts[i].t = t
            /\ Cardinality({j \in 1..i : stmts[j].t = t}) = n]

\* C22: in the statements parse returns, every GlobalOption statement comes
\* before every Entity, Relation and Attribute statement; so when parse_erd
\* reaches an entity, a relation or an attribute the four accumulators hold
\* what they hold once all statements are consumed, and every entity and
\* relation of the Diagram is what merging the final accumulators gives.
C22_DirectivesComeFirst ==
    /\ \A n \in 1..Len(stmts) : \A m \in 1..(n - 1) :
          stmts[n].t = "GlobalOption" => stmts[m].t = "GlobalOption"
    /\ (pc = "loop" /\ idx <= Len(stmts) /\ stmts[idx].t # "GlobalOption") =>
          \A cat \in {"Title", "Header", "Entity", "Relationship"} :
             Accumulated(cat) = FinalDirective(cat, 1, EmptyMap)
    /\ DoneOk =>
          /\ \A n \in 1..Len(result.erd.entities) :
                /\ result.erd.entities[n].options \in
                     { o.val : o \in { x \in EntityOptions_merge_hashmap(
                                               NthOf("Entity", n).options,
                                               FinalDirective("Entity", 1, EmptyMap)) : x.ok } }
                /\ result.erd.entities[n].header_options \in
                     { o.val : o \in { x \in HeaderOptions_merge_hashmap(
                                               NthOf("Entity", n).header_options,
                                               FinalDirective("Header", 1, EmptyMap)) : x.ok } }
          /\ \A n \in 1..Len(result.erd.relationships) :
                result.erd.relationships[n].options \in
                     { o.val : o \in { x \in RelationshipOptions_merge_hashmap(
                                               NthOf("Relation", n).options,
                                               FinalDirective("Relationship", 1, EmptyMap)) : x.ok } }

\* two leading entity directives, then an entity: the entity is reached with
\* both directives accumulated
C22_Witness ==
    /\ pc = "loop"
    /\ idx = 3
    /\ Len(stmts) = 3
    /\ stmts[1].t = "GlobalOption" /\ stmts[2].t = "GlobalOption"
    /\ stmts[3].t = "Entity"
    /\ OPT_LABEL \in DOMAIN entity_directive
    /\ entity_directive[OPT_COLOR] = red

----------------------------------------------------------------------------
(* Documents that write the key border-color.                               *)

BorderLines ==
    { Dir("Entity", << <<OPT_BORDER_COLOR, red>> >>),
      Dir("Header", << <<OPT_COLOR, pink>> >>),
      Ent(<<"e">>, <<>>),
      Ent(<<"e">>, << <<OPT_BORDER_COLOR, red>> >>),
      Ent(<<"f">>, << <<OPT_COLOR, red>>, <<OPT_BORDER_COLOR, blue>> >>),
      Att(<<"*">>, <<"i", "d">>, << <<OPT_BORDER, <<"2">>>> >>),
      Att(<<>>, <<"n">>, << <<OPT_BORDER_COLOR, red>> >>),
      Rel(<<"e">>, "1", "*", <<"f">>, <<>>) }

InitBorder == \E d \in DocsOf(BorderLines, MaxStmts) : InitOn(d, WriteDoc(d, 1))

SpecBorder == InitBorder /\ [][Next]_vars

WritesBorderColor == \E n \in 1..Len(doc) : HasKey(doc[n].opts, OPT_BORDER_COLOR)

\* C23: no document sets border_color: in every Diagram parse_erd returns it
\* is None in the header set and the entity-level set of every entity and in
\* the set of every attribute, and a document that writes the key
\* border-color in an option block is rejected, with the syntax error.
C23_BorderColorNeverSet ==
    /\ DoneOk =>
          \A n \in 1..Len(result.erd.entities) :
             /\ result.erd.entities[n].options.border_color = None
             /\ result.erd.entities[n].header_options.border_color = None
             /\ \A a \in 1..Len(result.erd.entities[n].attribs) :
                   result.erd.entities[n].attribs[a].options.border_color = None
    /\ (Done /\ WritesBorderColor) =>
          /\ result.kind = "Err"
          /\ result.err.text = "Parsing Error: Nom(_, Eof)"
    /\ OPT_BORDER_COLOR \notin DOMAIN header_directive
    /\ OPT_BORDER_COLOR \notin DOMAIN entity_directive

\* `[e]`, then `[f] {color: "red", border-color: "blue"}`: rejected
C23_Witness ==
    /\ Done
    /\ Len(doc) = 2
    /\ doc[1] = Ent(<<"e">>, <<>>)
    /\ doc[2] = Ent(<<"f">>, << <<OPT_COLOR, red>>, <<OPT_BORDER_COLOR, blue>> >>)
    /\ result.kind = "Err"
    /\ entities = <<>>

====
